---- MODULE Spec2Model ----
(***************************************************************************)
(* A model of the Ember tree-walking interpreter (src/ember).              *)
(*                                                                         *)
(* The interpreter is a set of mutually recursive Python handlers.  The    *)
(* model keeps the Python call stack explicit: `stack` holds one frame per *)
(* active handler that still has work to do, and every action is one step  *)
(* of the handler on top of the stack, from the point where it is resumed  *)
(* up to its next call into another handler, its return or its raise.      *)
(* Literals and identifiers (handlers that call nothing) are evaluated     *)
(* inside the step of the handler that needs them.                         *)
(*                                                                         *)
(* Heap objects with identity (Environment, Python list) live in `envs`    *)
(* and `lists` and are referred to by index.  Numbers are modelled by      *)
(* exact fractions.  The host stack is taken to be deep enough for         *)
(* MAX_CALL_DEPTH nested calls, as spec section 4.4 requires.              *)
(*                                                                         *)
(* The lexer and the parser are modelled on their own: `lex` is the Lexer  *)
(* object, advanced one _scan_token at a time, and `par` the Parser        *)
(* object, whose parse is applied to token lists the lexer model makes.    *)
(***************************************************************************)
EXTENDS Integers, Sequences, FiniteSets, TLC

VARIABLES
    sess,       \* which session (sequence of programs given to execute) runs
    results,    \* outcome of every finished execute call, in order
    stack,      \* the active handler frames, innermost last
    ret,        \* what the handler that just finished handed to its caller
    envs,       \* heap of Environment objects: [p |-> parent or 0, v |-> names -> values]
    lists,      \* heap of Python lists
    callDepth,  \* Interpreter._call_depth
    output,     \* the lines given to output_fn
    eqA, eqB, eqRes,  \* operands and results of the equality operators under test
    envOp,      \* the last Environment operation performed directly and its result
    lex,        \* the Lexer object during and after a call of tokenize
    par         \* the Parser object during and after a call of parse

vars == <<sess, results, stack, ret, envs, lists, callDepth, output, eqA, eqB, eqRes, envOp,
          lex, par>>

-----------------------------------------------------------------------------
(* Runtime values *)

Nil == [t |-> "nil"]
BoolV(b) == [t |-> "bool", b |-> b]
\* a Number is a Python float; the model holds it as the fraction n/d in lowest
\* terms with d > 0 (d = 1 for the integer-valued ones), which is exact for the
\* small operands used here.  The floats that are no fraction have d = 0: 1/0 and
\* -1/0 are the two infinities and 0/0 is NaN.  Rounding is outside the model.
NumV(n) == [t |-> "num", n |-> n, d |-> 1]
Inf(sign) == [t |-> "num", n |-> sign, d |-> 0]
NaN == [t |-> "num", n |-> 0, d |-> 0]
IsFinite(v) == v.d # 0
Sign(i) == IF i > 0 THEN 1 ELSE IF i < 0 THEN -1 ELSE 0
Abs(i) == IF i < 0 THEN -i ELSE i
RECURSIVE GCD(_, _)
GCD(a, b) == IF b = 0 THEN a ELSE GCD(b, a % b)
Rat(n, d) ==
    LET g == GCD(Abs(n), Abs(d))
        sgn == IF d < 0 THEN -1 ELSE 1
    IN [t |-> "num", n |-> sgn * (n \div g), d |-> sgn * (d \div g)]
StrV(s) == [t |-> "str", s |-> s]
ListV(id) == [t |-> "list", id |-> id]
FnV(d, c) == [t |-> "fn", d |-> d, c |-> c]
BuiltinV(name) == [t |-> "builtin", name |-> name]

MAX_CALL_DEPTH == 1000

-----------------------------------------------------------------------------
(* Errors *)

RuntimeError(msg) == [kind |-> "RuntimeError", msg |-> msg]
TypeError(msg) == [kind |-> "TypeError", msg |-> msg]
ReturnSignal(v) == [kind |-> "ReturnSignal", v |-> v]
\* exceptions of the host that are no EmberError
HostError(kind, msg) == [kind |-> kind, msg |-> msg]
OkResult == [kind |-> "ok"]

-----------------------------------------------------------------------------
(* AST nodes *)

Num(n) == [k |-> "Num", value |-> n]
Str(s) == [k |-> "Str", value |-> s]
Bool(b) == [k |-> "Bool", value |-> b]
NilLit == [k |-> "Nil"]
Id(name) == [k |-> "Id", name |-> name]
ListLit(es) == [k |-> "List", elements |-> es]
Un(op, x) == [k |-> "Un", operator |-> op, operand |-> x]
Bin(op, l, r) == [k |-> "Bin", operator |-> op, left |-> l, right |-> r]
Call(f, args) == [k |-> "Call", callee |-> f, arguments |-> args]
Idx(o, i) == [k |-> "Idx", obj |-> o, index |-> i]

Let(name, x) == [k |-> "Let", name |-> name, value |-> x]
IdxAsg(o, i, x) == [k |-> "IdxAsg", obj |-> o, index |-> i, value |-> x]
If(c, then, elifs, else) ==
    [k |-> "If", condition |-> c, then_body |-> then, elif_clauses |-> elifs, else_body |-> else]
While(c, body) == [k |-> "While", condition |-> c, body |-> body]
FnDef(d) == [k |-> "Fn", d |-> d]
Ret(x) == [k |-> "Ret", value |-> <<x>>]
RetNone == [k |-> "Ret", value |-> <<>>]
Expr(x) == [k |-> "Expr", expression |-> x]
NoElse == [none |-> TRUE]
Else(body) == [none |-> FALSE, body |-> body]

-----------------------------------------------------------------------------
(* The programs given to execute.  A FunctionDef node names its definition *)
(* (name, params, body) in DefTable.                                       *)

CallStmt(name, args) == Expr(Call(Id(name), args))
Show(x) == CallStmt("print", <<x>>)

DefTable == <<
    \* 1: fn f() do f() end
    [name |-> "f", params |-> <<>>, body |-> <<CallStmt("f", <<>>)>>],
    \* 2: fn find(n) do let i = 0  while i < 3 do if i == n do return i + 10 end
    \*    let i = i + 1 end  print("after loop") end
    [name |-> "find", params |-> <<"n">>, body |-> <<
        Let("i", Num(0)),
        While(Bin("<", Id("i"), Num(3)), <<
            If(Bin("==", Id("i"), Id("n")), <<Ret(Bin("+", Id("i"), Num(10)))>>, <<>>, NoElse),
            Let("i", Bin("+", Id("i"), Num(1))) >>),
        Show(Str("after loop")) >>],
    \* 3: fn bare() do print("in bare")  return  print("unreached") end
    [name |-> "bare", params |-> <<>>, body |-> <<
        Show(Str("in bare")), RetNone, Show(Str("unreached")) >>],
    \* 4: fn add(a, b) do return a + b end
    [name |-> "add", params |-> <<"a", "b">>, body |-> <<Ret(Bin("+", Id("a"), Id("b")))>>],
    \* 5: fn bad(x) do append(l, x)  print("in bad")  return x / 0  print("unreached") end
    [name |-> "bad", params |-> <<"x">>, body |-> <<
        CallStmt("append", <<Id("l"), Id("x")>>),
        Show(Str("in bad")),
        Ret(Bin("/", Id("x"), Num(0))),
        Show(Str("unreached")) >>],
    \* 6: fn g() do let x = 10  let w = 4  return w end
    [name |-> "g", params |-> <<>>, body |-> <<
        Let("x", Num(10)), Let("w", Num(4)), Ret(Id("w")) >>],
    \* 7: fn sh(x) do let x = x + 1  return x end
    [name |-> "sh", params |-> <<"x">>, body |-> <<
        Let("x", Bin("+", Id("x"), Num(1))), Ret(Id("x")) >>],
    \* 8: fn make_counter() do let count = 0  fn next() ... end  return next end
    [name |-> "make_counter", params |-> <<>>, body |-> <<
        Let("count", Num(0)), FnDef(9), Ret(Id("next")) >>],
    \* 9: fn next() do let count = count + 1  return count end
    [name |-> "next", params |-> <<>>, body |-> <<
        Let("count", Bin("+", Id("count"), Num(1))), Ret(Id("count")) >>],
    \* 10: fn outer(n) do if n > 0 do print(inner(n))  return "outer" end  return 0 end
    [name |-> "outer", params |-> <<"n">>, body |-> <<
        If(Bin(">", Id("n"), Num(0)),
           <<Show(Call(Id("inner"), <<Id("n")>>)), Ret(Str("outer"))>>, <<>>, NoElse),
        Ret(Num(0)) >>],
    \* 11: fn inner(n) do while true do if n == 1 do return "inner" end let n = n - 1 end end
    [name |-> "inner", params |-> <<"n">>, body |-> <<
        While(Bool(TRUE), <<
            If(Bin("==", Id("n"), Num(1)), <<Ret(Str("inner"))>>, <<>>, NoElse),
            Let("n", Bin("-", Id("n"), Num(1))) >>) >>],
    \* 12: fn noret() do let z = 1 end
    [name |-> "noret", params |-> <<>>, body |-> <<Let("z", Num(1))>>],
    \* 13: fn getk() do return k end
    [name |-> "getk", params |-> <<>>, body |-> <<Ret(Id("k"))>>],
    \* 14: fn show() do return v end
    [name |-> "show", params |-> <<>>, body |-> <<Ret(Id("v"))>>],
    \* 15: fn caller(v) do return show() end
    [name |-> "caller", params |-> <<"v">>, body |-> <<Ret(Call(Id("show"), <<>>))>>],
    \* 16: fn push(l, x) do append(l, x) end
    [name |-> "push", params |-> <<"l", "x">>, body |-> <<
        CallStmt("append", <<Id("l"), Id("x")>>) >>],
    \* 17: fn h() do return t end
    [name |-> "h", params |-> <<>>, body |-> <<Ret(Id("t"))>>],
    \* 18: fn c(label, v) do print(label)  return v end
    [name |-> "c", params |-> <<"label", "v">>, body |-> <<Show(Id("label")), Ret(Id("v"))>>],
    \* 19: fn wrap() do print("in wrap")  return add(1) end
    [name |-> "wrap", params |-> <<>>, body |-> <<
        Show(Str("in wrap")), Ret(Call(Id("add"), <<Num(1)>>)) >>],
    \* 20: fn wrap2() do return five() end
    [name |-> "wrap2", params |-> <<>>, body |-> <<Ret(Call(Id("five"), <<>>))>>]
>>

\* unbounded recursion, then the same Interpreter is used again
SessRecursion == <<
    <<FnDef(1), Show(Str("start")), CallStmt("f", <<>>), Show(Str("unreached"))>>,
    <<Show(Str("again"))>> >>

\* `return` outside any call: at top level, in an if body, in a while body
SessTopReturn == <<
    <<Show(Num(1)), Ret(Num(5)), Show(Num(2))>>,
    <<Let("x", Num(1)),
      If(Bin("==", Id("x"), Num(1)), <<RetNone>>, <<>>, NoElse),
      Show(Str("unreached"))>>,
    <<While(Bool(TRUE), <<Ret(Id("x"))>>), Show(Str("unreached"))>>,
    <<Show(Id("x"))>> >>

\* `return` inside calls, nested in loops and branches
SessReturn == <<
    <<FnDef(2), FnDef(3), FnDef(10), FnDef(11), FnDef(12),
      Show(Call(Id("find"), <<Num(1)>>)),
      Show(Call(Id("find"), <<Num(5)>>)),
      Show(Call(Id("bare"), <<>>)),
      Show(Call(Id("noret"), <<>>)),
      Show(Call(Id("outer"), <<Num(2)>>)),
      Show(Str("end"))>> >>

\* one failing program after the other on one Interpreter
SessErrors == <<
    <<Show(Str("a")), Show(Id("undefined_var")), Show(Str("unreached"))>>,
    <<FnDef(4), Show(Call(Id("add"), <<Num(1), Num(2)>>)), Show(Call(Id("add"), <<Num(1)>>))>>,
    <<Let("l", ListLit(<<Num(1), Num(2)>>)), Show(Idx(Id("l"), Num(1))), Show(Idx(Id("l"), Num(5)))>>,
    <<Show(Bin("/", Num(6), Num(3))), Show(Bin("/", Num(1), Num(0)))>>,
    <<Show(Bin("%", Num(7), Num(3))), Show(Bin("%", Num(1), Num(0)))>>,
    <<Let("x", Num(1)), CallStmt("x", <<>>)>>,
    <<Show(Call(Id("len"), <<Id("l")>>)), Show(Call(Id("len"), <<Num(1)>>))>>,
    <<CallStmt("len", <<>>)>>,
    <<CallStmt("append", <<Num(1), Num(2)>>)>>,
    <<Show(Bin("+", Str("a"), Str("b"))), Show(Bin("+", Num(1), Str("a")))>>,
    <<Show(Bin("<", Bool(TRUE), Num(1)))>>,
    <<Show(Un("-", Num(3))), Show(Un("not", NilLit)), Show(Un("-", Str("a")))>>,
    <<Show(Idx(Str("abc"), Num(1))), Show(Idx(NilLit, Num(0)))>>,
    <<Show(Idx(Id("l"), Str("a")))>>,
    <<Show(Idx(Str("abc"), Num(3)))>>,
    <<IdxAsg(Id("l"), Num(0), Num(9)), Show(Id("l")), IdxAsg(Id("l"), Num(2), Num(9))>>,
    <<IdxAsg(Id("x"), Num(0), Num(9))>>,
    <<IdxAsg(Id("l"), NilLit, Num(9))>>,
    <<Show(Id("l")), Show(Id("x"))>> >>

\* a failure deep inside a statement, after side effects
SessFailure == <<
    <<Let("l", ListLit(<<Num(1)>>)), FnDef(5), Let("i", Num(0)),
      While(Bin("<", Id("i"), Num(2)), <<
          Let("i", Bin("+", Id("i"), Num(1))),
          Show(Call(Id("bad"), <<Id("i")>>)) >>),
      Show(Str("unreached"))>>,
    <<Show(Id("l")), Show(Id("i"))>> >>

\* `let` in nested scopes, closures, and a built-in name overwritten
SessLet == <<
    <<Let("x", Num(1)),
      If(Bool(FALSE), <<Show(Str("no"))>>,
         << <<Bin("==", Id("x"), Num(2)), <<Show(Str("no"))>>>>,
            <<Bin("==", Id("x"), Num(1)), <<Let("x", Num(2)), Let("y", Num(3)),
                                             Show(Bin("+", Id("x"), Id("y")))>>>> >>,
         Else(<<Show(Str("no"))>>)),
      Show(Id("x")),
      If(NilLit, <<Show(Str("no"))>>, <<>>, Else(<<Let("y", Num(7)), Show(Id("y"))>>)),
      FnDef(6), Show(Call(Id("g"), <<>>)), Show(Id("x")),
      FnDef(7), Show(Call(Id("sh"), <<Num(5)>>)), Show(Id("x")),
      FnDef(8), Let("c", Call(Id("make_counter"), <<>>)),
      Show(Call(Id("c"), <<>>)), Show(Call(Id("c"), <<>>)),
      Show(Bin("and", Bool(FALSE), Bin("/", Num(1), Num(0)))),
      Show(Bin("or", NilLit, Bin("and", Num(0), Str("s")))),
      Let("print", Num(1)),
      Show(Id("y"))>>,
    <<Let("z", Id("x")), Show(Id("z"))>> >>

\* equality and input through the evaluator
SessValues == <<
    <<Show(Bin("==", Bool(TRUE), Num(1))), Show(Bin("!=", Bool(TRUE), Num(1))),
      Show(Bin("==", NilLit, Bool(FALSE))),
      Show(Bin("==", ListLit(<<Num(1)>>), ListLit(<<Bool(TRUE)>>))),
      Show(Call(Id("type"), <<Id("print")>>)),
      Show(Call(Id("num"), <<Call(Id("str"), <<Num(4)>>)>>)),
      Let("s", Call(Id("input"), <<>>)),
      Show(Call(Id("num"), <<Id("s")>>))>> >>

\* closures: two counters, a captured variable updated after the definition,
\* and a callee that reads a name its caller also binds
SessClosures == <<
    <<FnDef(8),
      Let("a", Call(Id("make_counter"), <<>>)), Let("b", Call(Id("make_counter"), <<>>)),
      Show(Call(Id("a"), <<>>)), Show(Call(Id("a"), <<>>)),
      Show(Call(Id("b"), <<>>)), Show(Call(Id("a"), <<>>)),
      Let("k", Num(1)), FnDef(13), Let("k", Num(2)), Show(Call(Id("getk"), <<>>)),
      Let("v", Str("global")), FnDef(14), FnDef(15),
      Show(Call(Id("caller"), <<Str("local")>>))>> >>

\* one List reached through a second name, a parameter and an element of another
\* List, and a second List with the same items
SessLists == <<
    <<Let("a", ListLit(<<Num(1)>>)),
      Let("b", Id("a")),
      FnDef(16), CallStmt("push", <<Id("b"), Num(2)>>),
      Let("n", ListLit(<<Id("a")>>)),
      CallStmt("append", <<Idx(Id("n"), Num(0)), Num(3)>>),
      IdxAsg(Id("b"), Num(0), Num(9)),
      Show(Id("a")), Show(Id("n")),
      Let("c", ListLit(<<Num(9), Num(2), Num(3)>>)),
      Show(Bin("==", Id("a"), Id("c"))),
      CallStmt("append", <<Id("c"), Num(4)>>),
      Show(Id("a")), Show(Id("c")),
      Show(Call(Id("len"), <<Id("b")>>))>> >>

\* names first bound in a while body, in then, elif and else bodies, read after the
\* body, in the next iteration and in the loop condition
SessBlocks == <<
    <<Let("i", Num(0)),
      While(Bin("<", Id("i"), Num(2)), <<
          Let("i", Bin("+", Id("i"), Num(1))),
          Let("t", Bin("*", Id("i"), Num(10))),
          FnDef(17),
          Show(Call(Id("h"), <<>>)) >>),
      Show(Id("i")), Show(Id("t"))>>,
    <<CallStmt("h", <<>>)>>,
    <<Let("j", Num(0)),
      While(Bin("<", Id("j"), Num(2)), <<
          If(Bin("==", Id("j"), Num(1)), <<Show(Id("w"))>>, <<>>, NoElse),
          Let("w", Num(5)),
          Let("j", Bin("+", Id("j"), Num(1))) >>)>>,
    <<If(Bool(FALSE), <<>>,
         << <<Bin("==", Id("j"), Num(1)), <<Let("u", Num(1)), Show(Id("u"))>>>> >>, NoElse),
      Show(Id("u"))>>,
    <<If(NilLit, <<>>, <<>>, Else(<<Let("e", Num(2)), Show(Id("e"))>>)),
      Show(Id("e"))>>,
    <<If(Num(0), <<Let("th", Num(3)), Show(Id("th"))>>, <<>>, NoElse),
      Show(Id("th"))>>,
    <<Let("n", Num(0)),
      While(Bin("or", Bin("<", Id("n"), Num(1)), Id("q")), <<
          Let("q", Bool(TRUE)),
          Let("n", Bin("+", Id("n"), Num(1))) >>)>> >>

\* c(label, v) prints label and returns v
Cond(label, x) == Call(Id("c"), <<Str(label), x>>)

\* if statements whose conditions show that they are evaluated
SessIf == <<
    <<FnDef(18),
      If(Cond("c1", NilLit), <<Show(Str("b1"))>>,
         << <<Cond("c2", Num(0)), <<Show(Str("b2"))>>>>,
            <<Cond("c3", Bool(TRUE)), <<Show(Str("b3"))>>>> >>,
         Else(<<Show(Str("be"))>>)),
      If(Cond("d1", Bool(FALSE)), <<Show(Str("x1"))>>,
         << <<Cond("d2", Str("")), <<Show(Str("x2"))>>>> >>,
         Else(<<Show(Str("xe"))>>)),
      If(Cond("e1", NilLit), <<Show(Str("v1"))>>,
         << <<Cond("e2", Bool(FALSE)), <<Show(Str("v2"))>>>> >>,
         Else(<<Show(Str("ve"))>>)),
      If(Cond("f1", ListLit(<<>>)), <<Show(Str("y1"))>>,
         << <<Cond("f2", Bool(TRUE)), <<Show(Str("y2"))>>>> >>,
         Else(<<Show(Str("ye"))>>)),
      If(Cond("g1", Bool(FALSE)), <<Show(Str("z1"))>>,
         << <<Cond("g2", NilLit), <<Show(Str("z2"))>>>> >>, NoElse),
      If(Cond("h1", Num(1)), <<Show(Str("w1"))>>,
         << <<Bin("/", Num(1), Num(0)), <<Show(Str("w2"))>>>> >>, NoElse),
      Show(Str("after"))>> >>

\* `and` and `or` on operands that show that they are evaluated
SessLogic == <<
    <<FnDef(18),
      Show(Bin("and", Cond("a1", Bool(FALSE)), Cond("a2", Num(1)))),
      Show(Bin("and", Cond("b1", Num(2)), Cond("b2", Str("s")))),
      Show(Bin("or", Cond("o1", Num(0)), Cond("o2", Num(1)))),
      Show(Bin("or", Cond("p1", NilLit), Cond("p2", Str("")))),
      Show(Bin("and", Bool(FALSE), Bin("/", Num(1), Num(0)))),
      Show(Bin("or", Bool(TRUE), Bin("/", Num(1), Num(0)))),
      Show(Bin("and", NilLit, Id("undefined_var"))),
      Show(Bin("and", Num(1), NilLit)),
      Show(Bin("or", Bool(FALSE), ListLit(<<>>)))>>,
    <<Show(Bin("and", Bool(TRUE), Bin("/", Num(1), Num(0))))>>,
    <<Show(Bin("or", NilLit, Id("undefined_var")))>> >>

\* calls with matching and wrong argument counts and of values that are no functions,
\* at top level and inside a function
SessCalls == <<
    <<FnDef(4), FnDef(18), FnDef(19), FnDef(20), Let("five", Num(5)),
      Let("l", ListLit(<<Num(1)>>)),
      Show(Call(Id("add"), <<Num(1), Num(2)>>)),
      CallStmt("print", <<>>),
      CallStmt("print", <<Num(1), Str("a"), NilLit>>),
      CallStmt("add", <<Num(1)>>),
      Show(Str("unreached"))>>,
    <<CallStmt("add", <<Num(1), Num(2), Cond("arg", Num(3))>>)>>,
    <<CallStmt("len", <<>>)>>,
    <<CallStmt("append", <<Id("l")>>)>>,
    <<CallStmt("type", <<Num(1), Num(2)>>)>>,
    <<CallStmt("five", <<>>)>>,
    <<Expr(Call(NilLit, <<Num(1)>>))>>,
    <<Expr(Call(Str("s"), <<>>))>>,
    <<CallStmt("l", <<Num(0)>>)>>,
    <<CallStmt("wrap", <<>>)>>,
    <<CallStmt("wrap2", <<>>)>>,
    <<Show(Id("l"))>> >>

\* index-assignment and index reads on a List and a String with indices in and out
\* of range, fractional, of another type, infinite and NaN, and on other targets
SessIndex == <<
    <<Let("l", ListLit(<<Num(1), Num(2), Num(3)>>)),
      Let("s", Str("ab")),
      IdxAsg(Id("l"), Num(1), Num(9)),
      IdxAsg(Id("l"), Bin("/", Num(1), Num(2)), Num(7)),
      IdxAsg(Id("l"), Bin("-", Num(0), Bin("/", Num(1), Num(2))), Num(8)),
      Show(Id("l")),
      CallStmt("print", <<Idx(Id("l"), Num(2)), Idx(Id("s"), Num(1)),
                          Idx(Id("s"), Bin("/", Num(3), Num(2)))>>)>>,
    <<IdxAsg(Id("l"), Num(3), Num(0))>>,
    <<IdxAsg(Id("l"), Un("-", Num(1)), Num(0))>>,
    <<IdxAsg(Id("l"), Bool(TRUE), Num(0))>>,
    <<IdxAsg(Id("s"), Num(0), Str("x"))>>,
    <<Let("n", NilLit), IdxAsg(Id("n"), Num(0), Num(1))>>,
    <<Show(Idx(Id("l"), Num(3)))>>,
    <<Show(Idx(Id("s"), Num(2)))>>,
    <<Show(Idx(Id("l"), Str("a")))>>,
    <<Show(Idx(Id("s"), NilLit))>>,
    <<Show(Idx(NilLit, Num(0)))>>,
    <<Show(Idx(Id("print"), Num(0)))>>,
    <<Let("f", Call(Id("num"), <<Str("inf")>>)), IdxAsg(Id("l"), Id("f"), Num(0))>>,
    <<Show(Idx(Id("l"), Call(Id("num"), <<Str("nan")>>)))>>,
    <<Show(Idx(Id("s"), Bin("-", Num(0), Id("f"))))>>,
    <<Show(Id("l"))>> >>

\* a REPL session: the unbounded recursion fails, and is entered again
SessRepl == <<
    <<FnDef(1), CallStmt("f", <<>>)>>,
    <<CallStmt("f", <<>>)>>,
    <<Show(Str("again"))>> >>

\* values given to print and str: Lists that hold themselves, made by append and by
\* index assignment, directly and through another List; Lists that do not; infinity
\* and NaN
SessRender == <<
    <<Let("a", ListLit(<<Num(1)>>)),
      CallStmt("append", <<Id("a"), Id("a")>>),
      Show(Call(Id("len"), <<Id("a")>>))>>,
    <<Show(Id("a"))>>,
    <<Let("s", Call(Id("str"), <<Id("a")>>))>>,
    <<Let("b", ListLit(<<Num(1), Num(2)>>)),
      IdxAsg(Id("b"), Num(0), Id("b")),
      Show(Id("b"))>>,
    <<Let("c", ListLit(<<Num(0)>>)),
      Let("d", ListLit(<<Id("c")>>)),
      IdxAsg(Id("c"), Num(0), Id("d")),
      CallStmt("print", <<Str("x"), Id("c")>>)>>,
    <<Show(Call(Id("num"), <<Str("inf")>>))>>,
    <<CallStmt("print", <<ListLit(<<Num(1), ListLit(<<Num(2), Num(3)>>)>>), Str("x")>>)>>,
    <<Expr(Un("-", Id("a")))>>,
    <<Show(Call(Id("str"), <<Call(Id("num"), <<Str("nan")>>)>>))>>,
    <<CallStmt("print", <<Call(Id("len"), <<Id("a")>>), Call(Id("len"), <<Id("b")>>)>>)>> >>

Sessions == <<SessRecursion, SessTopReturn, SessReturn, SessErrors, SessFailure,
              SessLet, SessValues, SessClosures, SessLists, SessBlocks, SessIf,
              SessLogic, SessCalls, SessIndex, SessRepl, SessRender>>

\* what input() can read from the host: a line, or the end of the input
InputLines == {"7", "x"}

-----------------------------------------------------------------------------
(* Helpers of the interpreter *)

\* truthiness as the host language has it: 0 and the empty string are falsy too
IsTruthyAsPython(v) == v \notin {Nil, BoolV(FALSE), NumV(0), StrV("")}

IsTruthy(v) ==
    IF v.t = "nil" THEN FALSE
    ELSE IF v.t = "bool" THEN v.b
    ELSE TRUE

\* Python's bool is an int: True and False take part in numeric comparison.
PyNumber(v) == IF v.t = "bool" THEN NumV(IF v.b THEN 1 ELSE 0) ELSE v

RECURSIVE PyEq(_, _, _)
\* Python's a == b on the host values that carry Ember values.  (Two Lists that
\* hold one and the same NaN object compare equal in Python; floats have no
\* identity here, so the model is exact only for Lists without NaN.)
PyEq(a, b, h) ==
    IF a.t \in {"bool", "num"} /\ b.t \in {"bool", "num"}
    THEN PyNumber(a) = PyNumber(b) /\ a # NaN
    ELSE IF a.t # b.t THEN FALSE
    ELSE CASE a.t = "nil" -> TRUE
           [] a.t = "str" -> a.s = b.s
           [] a.t = "list" ->
                \/ a.id = b.id
                \/ /\ Len(h[a.id]) = Len(h[b.id])
                   /\ \A i \in 1..Len(h[a.id]) : PyEq(h[a.id][i], h[b.id][i], h)
           [] a.t = "fn" -> a.d = b.d /\ a.c = b.c
           [] a.t = "builtin" -> a.name = b.name

EmberEqual(a, b, h) ==
    IF a.t = "nil" /\ b.t = "nil" THEN TRUE
    ELSE IF a.t = "nil" \/ b.t = "nil" THEN FALSE
    ELSE PyEq(a, b, h)

\* type(value).__name__ of the host value that carries v
PyTypeName(v) ==
    CASE v.t = "nil" -> "NoneType"
      [] v.t = "bool" -> "bool"
      [] v.t = "num" -> "float"
      [] v.t = "str" -> "str"
      [] v.t = "list" -> "list"
      [] v.t = "fn" -> "EmberFunction"
      [] v.t = "builtin" -> "EmberBuiltin"

TypeName(v) ==
    CASE v.t = "nil" -> "nil"
      [] v.t = "bool" -> "bool"
      [] v.t = "num" -> "number"
      [] v.t = "str" -> "string"
      [] v.t = "list" -> "list"
      [] v.t \in {"fn", "builtin"} -> "function"

-----------------------------------------------------------------------------
(* Environment *)

\* a scope created without its parent
NewEnvDetached(parent) == [p |-> 0, v |-> <<>>]

NewEnv(parent) == [p |-> parent, v |-> <<>>]

\* define that rebinds a name an enclosing scope already binds
EnvDefineThroughChain(es, e, name, val) ==
    IF name \notin DOMAIN es[e].v /\ es[e].p # 0 /\ name \in DOMAIN es[es[e].p].v
    THEN [es EXCEPT ![es[e].p].v[name] = val]
    ELSE [es EXCEPT ![e].v = (name :> val) @@ @]

EnvDefine(es, e, name, val) == [es EXCEPT ![e].v = (name :> val) @@ @]

RECURSIVE EnvGet(_, _, _)
EnvGet(es, e, name) ==
    IF name \in DOMAIN es[e].v THEN [ok |-> TRUE, v |-> es[e].v[name]]
    ELSE IF es[e].p # 0 THEN EnvGet(es, es[e].p, name)
    ELSE [ok |-> FALSE]

\* set that binds in the scope it is called on
EnvSetInCurrentScope(es, e, name, val) ==
    [ok |-> TRUE, es |-> [es EXCEPT ![e].v = (name :> val) @@ @]]

RECURSIVE EnvSet(_, _, _, _)
EnvSet(es, e, name, val) ==
    IF name \in DOMAIN es[e].v THEN [ok |-> TRUE, es |-> [es EXCEPT ![e].v[name] = val]]
    ELSE IF es[e].p # 0 THEN EnvSet(es, es[e].p, name, val)
    ELSE [ok |-> FALSE, es |-> es]

RECURSIVE EnvHas(_, _, _)
EnvHas(es, e, name) ==
    IF name \in DOMAIN es[e].v THEN TRUE
    ELSE IF es[e].p # 0 THEN EnvHas(es, es[e].p, name)
    ELSE FALSE

-----------------------------------------------------------------------------
(* Built-in functions *)

BuiltinNames == <<"print", "len", "append", "type", "str", "num", "input">>

\* EmberBuiltin.arity; -1 means variadic
BuiltinArity(name) ==
    CASE name = "print" -> -1
      [] name = "len" -> 1
      [] name = "append" -> 2
      [] name = "type" -> 1
      [] name = "str" -> 1
      [] name = "num" -> 1
      [] name = "input" -> -1

RECURSIVE RegisterFrom(_, _)
RegisterFrom(vals, i) ==
    IF i > Len(BuiltinNames) THEN vals
    ELSE RegisterFrom((BuiltinNames[i] :> BuiltinV(BuiltinNames[i])) @@ vals, i + 1)

\* the values of the global Environment after register_builtins
BuiltinRegistry == RegisterFrom(<<>>, 1)

\* Python's int(x) of a fraction: truncation towards zero
Trunc(v) == IF v.n >= 0 THEN v.n \div v.d ELSE -((-v.n) \div v.d)

\* int(value): the host refuses to convert NaN and the infinities
IntOf(index) ==
    IF index = NaN
    THEN [ok |-> FALSE, exc |-> HostError("ValueError", "cannot convert float NaN to integer")]
    ELSE IF ~IsFinite(index)
    THEN [ok |-> FALSE,
          exc |-> HostError("OverflowError", "cannot convert float infinity to integer")]
    ELSE [ok |-> TRUE, idx |-> Trunc(index)]

\* str(int(value)) for an integer-valued float, str(value) otherwise; str(value) is
\* given with up to MaxDigits decimals, which is what Python shows for the fractions
\* with a finite expansion that short.
MaxDigits == 4
RECURSIVE Decimals(_, _, _)
Decimals(r, d, k) ==
    IF r = 0 \/ k = 0 THEN ""
    ELSE ToString((10 * r) \div d) \o Decimals((10 * r) % d, d, k - 1)
FormatNumber(v) ==
    IF v.d = 1 THEN ToString(v.n)
    ELSE (IF v.n < 0 THEN "-" ELSE "") \o ToString(Abs(v.n) \div v.d) \o "."
         \o Decimals(Abs(v.n) % v.d, v.d, MaxDigits)

Formatted(s) == [ok |-> TRUE, s |-> s]

\* _format_value and what it ends with: the text, or the error of the host.  `active`
\* are the Lists whose formatting is under way; a List that comes up again among them
\* is formatted again and again, until the host's stack is used up.
RECURSIVE FormatResult(_, _, _)
RECURSIVE JoinResult(_, _, _, _)
FormatResult(v, h, active) ==
    CASE v.t = "nil" -> Formatted("nil")
      [] v.t = "bool" -> Formatted(IF v.b THEN "true" ELSE "false")
      [] v.t = "num" -> IF IntOf(v).ok THEN Formatted(FormatNumber(v)) ELSE IntOf(v)
      [] v.t = "str" -> Formatted(v.s)
      [] v.t = "list" ->
            IF v.id \in active
            THEN [ok |-> FALSE,
                  exc |-> HostError("RecursionError", "maximum recursion depth exceeded")]
            ELSE LET items == JoinResult(h[v.id], ", ", h, active \cup {v.id}) IN
                 IF items.ok THEN Formatted("[" \o items.s \o "]") ELSE items
      [] v.t = "fn" -> Formatted("<fn " \o DefTable[v.d].name \o ">")
      [] v.t = "builtin" -> Formatted("<builtin " \o v.name \o ">")

\* sep.join(_format_value(v) for v in vs)
JoinResult(vs, sep, h, active) ==
    IF vs = <<>> THEN Formatted("")
    ELSE LET first == FormatResult(vs[1], h, active) IN
         IF ~first.ok \/ Len(vs) = 1 THEN first
         ELSE LET rest == JoinResult(Tail(vs), sep, h, active) IN
              IF ~rest.ok THEN rest ELSE Formatted(first.s \o sep \o rest.s)

\* the text of a value, and of several, that can be formatted
FormatValue(v, h) == FormatResult(v, h, {}).s
JoinFormatted(vs, sep, h) == JoinResult(vs, sep, h, {}).s

\* the error of a message that names the value v
ErrorNaming(kind, before, v, after, h) ==
    LET r == FormatResult(v, h, {}) IN
    IF r.ok THEN [kind |-> kind, msg |-> before \o r.s \o after] ELSE r.exc

\* the strings float() turns into one of the model's numbers
MaxNumeral == 9
ParseFloat(s) ==
    IF \E n \in 0..MaxNumeral : ToString(n) = s
    THEN [ok |-> TRUE, v |-> NumV(CHOOSE n \in 0..MaxNumeral : ToString(n) = s)]
    ELSE IF s = "inf" THEN [ok |-> TRUE, v |-> Inf(1)]
    ELSE IF s = "-inf" THEN [ok |-> TRUE, v |-> Inf(-1)]
    ELSE IF s = "nan" THEN [ok |-> TRUE, v |-> NaN]
    ELSE [ok |-> FALSE]

BuiltinValue(v) == [ok |-> TRUE, v |-> v]
BuiltinError(msg) == [ok |-> FALSE, exc |-> RuntimeError(msg)]

\* callee.fn(args, line, column) for the builtins that change nothing
PureBuiltin(name, args, h, line) ==
    CASE name = "len" ->
            IF args[1].t = "str" THEN BuiltinValue(NumV(Len(args[1].s)))
            ELSE IF args[1].t = "list" THEN BuiltinValue(NumV(Len(h[args[1].id])))
            ELSE BuiltinError("len() expects a string or list")
      [] name = "type" -> BuiltinValue(StrV(TypeName(args[1])))
      [] name = "str" ->
            LET r == FormatResult(args[1], h, {}) IN
            IF r.ok THEN BuiltinValue(StrV(r.s)) ELSE r
      [] name = "num" ->
            IF args[1].t \in {"num", "bool"} THEN BuiltinValue(PyNumber(args[1]))
            ELSE IF args[1].t = "str" /\ ParseFloat(args[1].s).ok
                 THEN BuiltinValue(ParseFloat(args[1].s).v)
            ELSE IF ~FormatResult(args[1], h, {}).ok THEN FormatResult(args[1], h, {})
            ELSE BuiltinError("num() cannot convert to a number")
      [] name = "input" ->
            IF args # <<>> /\ ~FormatResult(args[1], h, {}).ok
            THEN FormatResult(args[1], h, {})
            ELSE BuiltinValue(StrV(line))
      [] name = "print" ->
            IF JoinResult(args, " ", h, {}).ok THEN BuiltinValue(Nil)
            ELSE JoinResult(args, " ", h, {})
      [] name = "append" ->
            IF args[1].t # "list" THEN BuiltinError("append() expects a list as first argument")
            ELSE BuiltinValue(Nil)

-----------------------------------------------------------------------------
(* Frames of the handlers *)

NoRet == [t |-> "none"]
DoneRet == [t |-> "done"]
ValRet(v) == [t |-> "val", v |-> v]

NewFrame(node, env) == [k |-> node.k, n |-> node, e |-> env, i |-> 0, vs |-> <<>>]
BlockNode(stmts) == [k |-> "Block", stmts |-> stmts]

Running == stack # <<>>
Top == stack[Len(stack)]
Popped == SubSeq(stack, 1, Len(stack) - 1)
\* the values the top frame holds once it has taken what its callee returned
Taken == IF ret.t = "val" THEN Append(Top.vs, ret.v) ELSE Top.vs

IsAtom(x) == x.k \in {"Num", "Str", "Bool", "Nil", "Id"}

\* _eval of a literal or an identifier
EvalAtom(x, e, es) ==
    CASE x.k = "Num" -> [ok |-> TRUE, v |-> NumV(x.value)]
      [] x.k = "Str" -> [ok |-> TRUE, v |-> StrV(x.value)]
      [] x.k = "Bool" -> [ok |-> TRUE, v |-> BoolV(x.value)]
      [] x.k = "Nil" -> [ok |-> TRUE, v |-> Nil]
      [] x.k = "Id" ->
            IF EnvGet(es, e, x.name).ok THEN [ok |-> TRUE, v |-> EnvGet(es, e, x.name).v]
            ELSE [ok |-> FALSE, exc |-> RuntimeError("Undefined variable '" \o x.name \o "'")]

RECURSIVE Gather(_, _, _, _)
\* Evaluate the operands `ops` left to right, `vs` being the values already there:
\* done, or the next operand needs a handler of its own, or an identifier is undefined.
Gather(ops, vs, e, es) ==
    IF Len(vs) >= Len(ops) THEN [r |-> "done", vs |-> vs]
    ELSE LET x == ops[Len(vs) + 1] IN
         IF ~IsAtom(x) THEN [r |-> "push", vs |-> vs, x |-> x]
         ELSE IF EvalAtom(x, e, es).ok THEN Gather(ops, Append(vs, EvalAtom(x, e, es).v), e, es)
         ELSE [r |-> "err", vs |-> vs, exc |-> EvalAtom(x, e, es).exc]

SetMax(S) == CHOOSE m \in S : \A x \in S : x <= m
SetMin(S) == CHOOSE m \in S : \A x \in S : m <= x

\* Unwind with the ReturnSignal caught by the outermost active call
UnwindToOutermostCall(stk, exc, cd) ==
    LET bodies == {i \in 1..Len(stk) : stk[i].k = "Body"} IN
    IF exc.kind = "ReturnSignal" /\ bodies # {}
    THEN [stack |-> SubSeq(stk, 1, SetMin(bodies) - 1), ret |-> ValRet(exc.v),
          depth |-> cd - Cardinality(bodies), results |-> results]
    ELSE [stack |-> <<>>, ret |-> NoRet,
          depth |-> cd - Cardinality(bodies), results |-> Append(results, exc)]

\* Unwind with execute catching an error and going on with the next statement
UnwindRecoversAtTopLevel(stk, exc, cd) ==
    LET bodies == {i \in 1..Len(stk) : stk[i].k = "Body"} IN
    IF exc.kind = "ReturnSignal" /\ bodies # {}
    THEN [stack |-> SubSeq(stk, 1, SetMax(bodies) - 1), ret |-> ValRet(exc.v),
          depth |-> cd - 1, results |-> results]
    ELSE [stack |-> SubSeq(stk, 1, 1), ret |-> DoneRet,
          depth |-> cd - Cardinality(bodies), results |-> results]

\* Propagation of an exception raised with the frames `stk` active and the call depth
\* `cd`: _eval_call's `except ReturnSignal` and `finally`, and the exit of execute.
Unwind(stk, exc, cd) ==
    LET bodies == {i \in 1..Len(stk) : stk[i].k = "Body"} IN
    IF exc.kind = "ReturnSignal" /\ bodies # {}
    THEN [stack |-> SubSeq(stk, 1, SetMax(bodies) - 1), ret |-> ValRet(exc.v),
          depth |-> cd - 1, results |-> results]
    ELSE [stack |-> <<>>, ret |-> NoRet,
          depth |-> cd - Cardinality(bodies), results |-> Append(results, exc)]

\* The ways a step of the top frame ends, as far as control goes.
CtlPush(f, x) ==
    /\ stack' = Append([stack EXCEPT ![Len(stack)] = f], NewFrame(x, f.e))
    /\ ret' = NoRet
    /\ UNCHANGED <<callDepth, results>>

CtlStay(f) ==
    /\ stack' = [stack EXCEPT ![Len(stack)] = f]
    /\ ret' = NoRet
    /\ UNCHANGED <<callDepth, results>>

CtlReturn(r) ==
    /\ stack' = Popped
    /\ ret' = r
    /\ UNCHANGED <<callDepth, results>>

CtlRaise(exc, cd) ==
    /\ stack' = Unwind(stack, exc, cd).stack
    /\ ret' = Unwind(stack, exc, cd).ret
    /\ callDepth' = Unwind(stack, exc, cd).depth
    /\ results' = Unwind(stack, exc, cd).results

\* The handler of frame f is not through with its operands.
CtlOperand(f, g) ==
    IF g.r = "push" THEN CtlPush([f EXCEPT !.vs = g.vs], g.x)
    ELSE CtlRaise(g.exc, callDepth)

-----------------------------------------------------------------------------
(* Expression results *)

\* Python's floor(x) of a fraction
Floor(v) == v.n \div v.d


\* float arithmetic: exact on the fractions, IEEE 754 on the infinities and NaN
NumAdd(l, r) ==
    IF IsFinite(l) /\ IsFinite(r) THEN Rat(l.n * r.d + r.n * l.d, l.d * r.d)
    ELSE IF l = NaN \/ r = NaN THEN NaN
    ELSE IF IsFinite(l) THEN r
    ELSE IF IsFinite(r) \/ l = r THEN l
    ELSE NaN
NumSub(l, r) == NumAdd(l, [r EXCEPT !.n = -r.n])
NumMul(l, r) ==
    IF IsFinite(l) /\ IsFinite(r) THEN Rat(l.n * r.n, l.d * r.d)
    ELSE IF l.n = 0 \/ r.n = 0 THEN NaN
    ELSE Inf(Sign(l.n) * Sign(r.n))
\* l / r for r # 0
NumDiv(l, r) ==
    IF IsFinite(l) /\ IsFinite(r) THEN Rat(l.n * r.d, l.d * r.n)
    ELSE IF l = NaN \/ r = NaN \/ (~IsFinite(l) /\ ~IsFinite(r)) THEN NaN
    ELSE IF IsFinite(l) THEN NumV(0)
    ELSE Inf(Sign(l.n) * Sign(r.n))
NumLess(l, r) ==
    IF l = NaN \/ r = NaN THEN FALSE
    ELSE IF IsFinite(l) \/ IsFinite(r) THEN l.n * r.d < r.n * l.d
    ELSE l.n < r.n
NumLessEq(l, r) == l # NaN /\ r # NaN /\ ~NumLess(r, l)

\* Python's l % r on floats, r # 0: l - floor(l / r) * r, which has the sign of r
PyMod(l, r) ==
    IF IsFinite(l) /\ IsFinite(r) THEN NumSub(l, NumMul(NumV(Floor(NumDiv(l, r))), r))
    ELSE IF ~IsFinite(l) \/ r = NaN THEN NaN
    ELSE IF l.n = 0 \/ Sign(l.n) = Sign(r.n) THEN l
    ELSE r

\* _eval_numeric_binary with one message for both zero divisors
EvalNumericBinaryOneMessage(op, l, r) ==
    CASE op = "+" -> [ok |-> TRUE, v |-> NumAdd(l, r)]
      [] op = "-" -> [ok |-> TRUE, v |-> NumSub(l, r)]
      [] op = "*" -> [ok |-> TRUE, v |-> NumMul(l, r)]
      [] op \in {"/", "%"} /\ r = NumV(0) ->
            [ok |-> FALSE, exc |-> RuntimeError("Division by zero")]
      [] op = "/" /\ r # NumV(0) -> [ok |-> TRUE, v |-> NumDiv(l, r)]
      [] op = "%" /\ r # NumV(0) -> [ok |-> TRUE, v |-> PyMod(l, r)]
      [] op = "<" -> [ok |-> TRUE, v |-> BoolV(NumLess(l, r))]
      [] op = ">" -> [ok |-> TRUE, v |-> BoolV(NumLess(r, l))]
      [] op = "<=" -> [ok |-> TRUE, v |-> BoolV(NumLessEq(l, r))]
      [] op = ">=" -> [ok |-> TRUE, v |-> BoolV(NumLessEq(r, l))]
      [] OTHER -> [ok |-> FALSE, exc |-> RuntimeError("Unknown operator")]

\* _eval_numeric_binary
EvalNumericBinary(op, l, r) ==
    CASE op = "+" -> [ok |-> TRUE, v |-> NumAdd(l, r)]
      [] op = "-" -> [ok |-> TRUE, v |-> NumSub(l, r)]
      [] op = "*" -> [ok |-> TRUE, v |-> NumMul(l, r)]
      [] op = "/" -> IF r = NumV(0) THEN [ok |-> FALSE, exc |-> RuntimeError("Division by zero")]
                     ELSE [ok |-> TRUE, v |-> NumDiv(l, r)]
      [] op = "%" -> IF r = NumV(0) THEN [ok |-> FALSE, exc |-> RuntimeError("Modulo by zero")]
                     ELSE [ok |-> TRUE, v |-> PyMod(l, r)]
      [] op = "<" -> [ok |-> TRUE, v |-> BoolV(NumLess(l, r))]
      [] op = ">" -> [ok |-> TRUE, v |-> BoolV(NumLess(r, l))]
      [] op = "<=" -> [ok |-> TRUE, v |-> BoolV(NumLessEq(l, r))]
      [] op = ">=" -> [ok |-> TRUE, v |-> BoolV(NumLessEq(r, l))]
      [] OTHER -> [ok |-> FALSE, exc |-> RuntimeError("Unknown operator")]

\* _eval_binary that lets a Bool operand through as the number the host takes it for
BinaryResultBoolAsNumber(op, l, r, h) ==
    IF op = "==" THEN [ok |-> TRUE, v |-> BoolV(EmberEqual(l, r, h))]
    ELSE IF op = "!=" THEN [ok |-> TRUE, v |-> BoolV(~EmberEqual(l, r, h))]
    ELSE IF op = "+" /\ l.t = "str" /\ r.t = "str" THEN [ok |-> TRUE, v |-> StrV(l.s \o r.s)]
    ELSE IF l.t \in {"num", "bool"} /\ r.t \in {"num", "bool"}
         THEN EvalNumericBinary(op, PyNumber(l), PyNumber(r))
    ELSE [ok |-> FALSE, exc |-> TypeError("Cannot apply '" \o op \o "'")]

\* _eval_binary once both operands are there (not `and`, `or`)
BinaryResult(op, l, r, h) ==
    IF op = "==" THEN [ok |-> TRUE, v |-> BoolV(EmberEqual(l, r, h))]
    ELSE IF op = "!=" THEN [ok |-> TRUE, v |-> BoolV(~EmberEqual(l, r, h))]
    ELSE IF op = "+" /\ l.t = "str" /\ r.t = "str" THEN [ok |-> TRUE, v |-> StrV(l.s \o r.s)]
    ELSE IF l.t = "num" /\ r.t = "num" THEN EvalNumericBinary(op, l, r)
    ELSE IF ~FormatResult(l, h, {}).ok THEN FormatResult(l, h, {})
    ELSE IF ~FormatResult(r, h, {}).ok THEN FormatResult(r, h, {})
    ELSE [ok |-> FALSE,
          exc |-> TypeError("Cannot apply '" \o op \o "' to "
                            \o FormatValue(l, h) \o " (" \o TypeName(l) \o ") and "
                            \o FormatValue(r, h) \o " (" \o TypeName(r) \o ")")]

\* _eval_unary once the operand is there
UnaryResult(op, v, h) ==
    IF op = "-" THEN
        IF v.t # "num"
        THEN [ok |-> FALSE,
              exc |-> ErrorNaming("TypeError", "Cannot negate ", v,
                                  " (type " \o PyTypeName(v) \o ")", h)]
        ELSE [ok |-> TRUE, v |-> [v EXCEPT !.n = -v.n]]
    ELSE IF op = "not" THEN [ok |-> TRUE, v |-> BoolV(~IsTruthy(v))]
    ELSE [ok |-> FALSE, exc |-> RuntimeError("Unknown unary operator")]

OutOfRange(what, idx, length) ==
    RuntimeError("Index " \o ToString(idx) \o " out of range for "
                 \o (IF what = "List" THEN "list" ELSE "string")
                 \o " of length " \o ToString(length))

\* the index policy of _eval_index and _exec_index_assign: int(index) in 0..length-1
IndexResult(what, index, length) ==
    IF index.t # "num" THEN [ok |-> FALSE, exc |-> TypeError(what \o " index must be a number")]
    ELSE IF ~IntOf(index).ok THEN IntOf(index)
    ELSE IF Trunc(index) < 0 \/ Trunc(index) >= length
         THEN [ok |-> FALSE, exc |-> OutOfRange(what, Trunc(index), length)]
    ELSE [ok |-> TRUE, idx |-> Trunc(index)]

\* zip(callee.params, args) defined one after the other in the call's Environment
BindParams(params, args) ==
    [name \in {params[j] : j \in 1..Len(params)} |->
        args[SetMax({j \in 1..Len(params) : params[j] = name})]]

\* the arity checks of _eval_call and their error
ArityError(name, expected, actual) ==
    RuntimeError(name \o "() expects " \o ToString(expected) \o " argument(s), got "
                 \o ToString(actual))

BuiltinArityMismatch(arity, actual) == arity # -1 /\ actual # arity

\* a parameter check that lets extra arguments through
ParamsTooFew(params, args) == Len(args) < Len(params)

ParamsMismatch(params, args) == Len(args) # Len(params)

\* the guard of _eval_call on the incremented call depth
DepthExceededOffByOne(depth) == depth >= MAX_CALL_DEPTH

DepthExceeded(depth) == depth > MAX_CALL_DEPTH

-----------------------------------------------------------------------------
(* The interpreter: one action per handler *)

otherVars == <<eqA, eqB, eqRes, envOp, lex, par>>

\* _exec_stmt(s, f.e), called by the statement loop of frame f; `es` is the heap of
\* Environments it runs against.  An ExpressionStatement is _eval of its expression.
Dispatch(f, s, es) ==
    IF s.k # "Expr" THEN CtlPush(f, s)
    ELSE IF ~IsAtom(s.expression) THEN CtlPush(f, s.expression)
    ELSE IF EvalAtom(s.expression, f.e, es).ok THEN CtlStay(f)
    ELSE CtlRaise(EvalAtom(s.expression, f.e, es).exc, callDepth)

\* execute starting from a global Environment made anew
ExecuteOnFreshGlobals ==
    /\ ~Running
    /\ Len(results) < Len(Sessions[sess])
    /\ stack' = <<[k |-> "Exec", n |-> [prog |-> Len(results) + 1], e |-> 1, i |-> 1, vs |-> <<>>]>>
    /\ ret' = NoRet
    /\ envs' = [envs EXCEPT ![1].v = BuiltinRegistry]
    /\ UNCHANGED <<sess, results, lists, callDepth, output, otherVars>>

\* a host driver calls execute(program) on the Interpreter
Execute ==
    /\ ~Running
    /\ Len(results) < Len(Sessions[sess])
    /\ stack' = <<[k |-> "Exec", n |-> [prog |-> Len(results) + 1], e |-> 1, i |-> 1, vs |-> <<>>]>>
    /\ ret' = NoRet
    /\ UNCHANGED <<sess, results, envs, lists, callDepth, output, otherVars>>

\* the loop of execute over program.statements
ExecuteLoop ==
    /\ Running
    /\ Top.k = "Exec"
    /\ LET f == Top
           stmts == Sessions[sess][f.n.prog]
       IN IF f.i > Len(stmts)
          THEN /\ stack' = <<>>
               /\ ret' = NoRet
               /\ results' = Append(results, OkResult)
               /\ UNCHANGED callDepth
          ELSE Dispatch([f EXCEPT !.i = @ + 1], stmts[f.i], envs)
    /\ UNCHANGED <<sess, envs, lists, output, otherVars>>

\* a block run in the enclosing scope, without a scope of its own
ExecBlockInEnclosingScope ==
    /\ Running
    /\ Top.k = "Block"
    /\ LET f == Top
           i == IF f.i > 0 THEN f.i ELSE 1
       IN /\ envs' = envs
          /\ IF i > Len(f.n.stmts) THEN CtlReturn(DoneRet)
             ELSE Dispatch([f EXCEPT !.i = i + 1], f.n.stmts[i], envs)
    /\ UNCHANGED <<sess, lists, output, otherVars>>

\* _exec_block: a child Environment, then the statements in it
ExecBlock ==
    /\ Running
    /\ Top.k = "Block"
    /\ LET f == Top
           entered == f.i > 0
           es == IF entered THEN envs ELSE Append(envs, NewEnv(f.e))
           child_env == IF entered THEN f.e ELSE Len(envs) + 1
           i == IF entered THEN f.i ELSE 1
       IN /\ envs' = es
          /\ IF i > Len(f.n.stmts) THEN CtlReturn(DoneRet)
             ELSE Dispatch([f EXCEPT !.e = child_env, !.i = i + 1], f.n.stmts[i], es)
    /\ UNCHANGED <<sess, lists, output, otherVars>>

\* the part of _eval_call that runs callee.body, up to its normal end
CallBody ==
    /\ Running
    /\ Top.k = "Body"
    /\ LET f == Top
           body == DefTable[f.n.d].body
       IN IF f.i > Len(body)
          THEN /\ stack' = Popped
               /\ ret' = ValRet(Nil)
               /\ callDepth' = callDepth - 1
               /\ UNCHANGED results
          ELSE Dispatch([f EXCEPT !.i = @ + 1], body[f.i], envs)
    /\ UNCHANGED <<sess, envs, lists, output, otherVars>>

\* `let` that binds a copy of a List value
ExecLetCopiesList ==
    /\ Running
    /\ Top.k = "Let"
    /\ LET f == Top
           g == Gather(<<f.n.value>>, Taken, f.e, envs)
           isList == g.r = "done" /\ g.vs[1].t = "list"
           val == IF isList THEN ListV(Len(lists) + 1) ELSE g.vs[1]
       IN IF g.r # "done" THEN CtlOperand(f, g) /\ UNCHANGED <<envs, lists>>
          ELSE /\ lists' = IF isList THEN Append(lists, lists[g.vs[1].id]) ELSE lists
               /\ envs' = IF EnvHas(envs, f.e, f.n.name)
                          THEN EnvSet(envs, f.e, f.n.name, val).es
                          ELSE EnvDefine(envs, f.e, f.n.name, val)
               /\ CtlReturn(DoneRet)
    /\ UNCHANGED <<sess, output, otherVars>>

\* `let` that always binds in the current scope
ExecLetShadows ==
    /\ Running
    /\ Top.k = "Let"
    /\ LET f == Top
           g == Gather(<<f.n.value>>, Taken, f.e, envs)
       IN IF g.r # "done" THEN CtlOperand(f, g) /\ UNCHANGED envs
          ELSE /\ envs' = EnvDefine(envs, f.e, f.n.name, g.vs[1])
               /\ CtlReturn(DoneRet)
    /\ UNCHANGED <<sess, lists, output, otherVars>>

ExecLet ==
    /\ Running
    /\ Top.k = "Let"
    /\ LET f == Top
           g == Gather(<<f.n.value>>, Taken, f.e, envs)
       IN IF g.r # "done" THEN CtlOperand(f, g) /\ UNCHANGED envs
          ELSE /\ envs' = IF EnvHas(envs, f.e, f.n.name)
                          THEN EnvSet(envs, f.e, f.n.name, g.vs[1]).es
                          ELSE EnvDefine(envs, f.e, f.n.name, g.vs[1])
               /\ CtlReturn(DoneRet)
    /\ UNCHANGED <<sess, lists, output, otherVars>>

ExecIndexAssign ==
    /\ Running
    /\ Top.k = "IdxAsg"
    /\ LET f == Top
           g == Gather(<<f.n.obj, f.n.index, f.n.value>>, Taken, f.e, envs)
       IN IF g.r # "done" THEN CtlOperand(f, g) /\ UNCHANGED lists
          ELSE IF g.vs[1].t # "list"
               THEN /\ CtlRaise(ErrorNaming("TypeError", "Cannot index into ", g.vs[1],
                                            " (type " \o PyTypeName(g.vs[1]) \o ")", lists),
                                callDepth)
                    /\ UNCHANGED lists
          ELSE LET ix == IndexResult("List", g.vs[2], Len(lists[g.vs[1].id])) IN
               IF ~ix.ok THEN CtlRaise(ix.exc, callDepth) /\ UNCHANGED lists
               ELSE /\ lists' = [lists EXCEPT ![g.vs[1].id][ix.idx + 1] = g.vs[3]]
                    /\ CtlReturn(DoneRet)
    /\ UNCHANGED <<sess, envs, output, otherVars>>

\* a frame of _exec_if: i conditions were falsy so far, or i = -1 once a body was run
ExecIf ==
    /\ Running
    /\ Top.k = "If"
    /\ LET f == Top
           conds == <<f.n.condition>> \o
                    [j \in 1..Len(f.n.elif_clauses) |-> f.n.elif_clauses[j][1]]
           bodies == <<f.n.then_body>> \o
                     [j \in 1..Len(f.n.elif_clauses) |-> f.n.elif_clauses[j][2]]
           g == Gather(<<conds[f.i + 1]>>, Taken, f.e, envs)
           ran == [f EXCEPT !.i = -1, !.vs = <<>>]
       IN IF f.i = -1 THEN CtlReturn(DoneRet)
          ELSE IF g.r # "done" THEN CtlOperand(f, g)
          ELSE IF IsTruthy(g.vs[1]) THEN CtlPush(ran, BlockNode(bodies[f.i + 1]))
          ELSE IF f.i + 1 < Len(conds) THEN CtlStay([f EXCEPT !.i = @ + 1, !.vs = <<>>])
          ELSE IF f.n.else_body.none THEN CtlReturn(DoneRet)
          ELSE CtlPush(ran, BlockNode(f.n.else_body.body))
    /\ UNCHANGED <<sess, envs, lists, output, otherVars>>

ExecWhile ==
    /\ Running
    /\ Top.k = "While"
    /\ LET f == Top
           g == Gather(<<f.n.condition>>, IF ret.t = "val" THEN <<ret.v>> ELSE <<>>, f.e, envs)
       IN IF g.r # "done" THEN CtlOperand(f, g)
          ELSE IF IsTruthy(g.vs[1]) THEN CtlPush(f, BlockNode(f.n.body))
          ELSE CtlReturn(DoneRet)
    /\ UNCHANGED <<sess, envs, lists, output, otherVars>>

\* `fn` whose Function value captures a copy of the defining scope
ExecFnDefCopiesScope ==
    /\ Running
    /\ Top.k = "Fn"
    /\ envs' = Append(EnvDefine(envs, Top.e, DefTable[Top.n.d].name,
                                FnV(Top.n.d, Len(envs) + 1)),
                      envs[Top.e])
    /\ CtlReturn(DoneRet)
    /\ UNCHANGED <<sess, lists, output, otherVars>>

ExecFnDef ==
    /\ Running
    /\ Top.k = "Fn"
    /\ envs' = EnvDefine(envs, Top.e, DefTable[Top.n.d].name, FnV(Top.n.d, Top.e))
    /\ CtlReturn(DoneRet)
    /\ UNCHANGED <<sess, lists, output, otherVars>>

ExecReturn ==
    /\ Running
    /\ Top.k = "Ret"
    /\ LET f == Top
           g == Gather(f.n.value, Taken, f.e, envs)
       IN IF g.r # "done" THEN CtlOperand(f, g)
          ELSE CtlRaise(ReturnSignal(IF g.vs = <<>> THEN Nil ELSE g.vs[1]), callDepth)
    /\ UNCHANGED <<sess, envs, lists, output, otherVars>>

\* _eval of a ListLiteral
EvalList ==
    /\ Running
    /\ Top.k = "List"
    /\ LET f == Top
           g == Gather(f.n.elements, Taken, f.e, envs)
       IN IF g.r # "done" THEN CtlOperand(f, g) /\ UNCHANGED lists
          ELSE /\ lists' = Append(lists, g.vs)
               /\ CtlReturn(ValRet(ListV(Len(lists) + 1)))
    /\ UNCHANGED <<sess, envs, output, otherVars>>

EvalUnary ==
    /\ Running
    /\ Top.k = "Un"
    /\ LET f == Top
           g == Gather(<<f.n.operand>>, Taken, f.e, envs)
           r == UnaryResult(f.n.operator, g.vs[1], lists)
       IN IF g.r # "done" THEN CtlOperand(f, g)
          ELSE IF r.ok THEN CtlReturn(ValRet(r.v))
          ELSE CtlRaise(r.exc, callDepth)
    /\ UNCHANGED <<sess, envs, lists, output, otherVars>>

\* _eval_binary whose `and` and `or` yield a Bool
EvalBinaryCoercesLogic ==
    /\ Running
    /\ Top.k = "Bin"
    /\ LET f == Top
           op == f.n.operator
           gl == Gather(<<f.n.left>>, Taken, f.e, envs)
           g == Gather(<<f.n.left, f.n.right>>, gl.vs, f.e, envs)
           r == BinaryResult(op, g.vs[1], g.vs[2], lists)
       IN IF op \in {"and", "or"}
          THEN IF gl.r # "done" THEN CtlOperand(f, gl)
               ELSE IF (op = "and") # IsTruthy(gl.vs[1])
                    THEN CtlReturn(ValRet(BoolV(IsTruthy(gl.vs[1]))))
               ELSE IF g.r # "done" THEN CtlOperand(f, g)
               ELSE CtlReturn(ValRet(BoolV(IsTruthy(g.vs[2]))))
          ELSE IF gl.r # "done" THEN CtlOperand(f, gl)
               ELSE IF g.r # "done" THEN CtlOperand(f, g)
               ELSE IF r.ok THEN CtlReturn(ValRet(r.v))
               ELSE CtlRaise(r.exc, callDepth)
    /\ UNCHANGED <<sess, envs, lists, output, otherVars>>

EvalBinary ==
    /\ Running
    /\ Top.k = "Bin"
    /\ LET f == Top
           op == f.n.operator
           gl == Gather(<<f.n.left>>, Taken, f.e, envs)
           g == Gather(<<f.n.left, f.n.right>>, gl.vs, f.e, envs)
           r == BinaryResult(op, g.vs[1], g.vs[2], lists)
       IN IF op \in {"and", "or"}
          THEN IF gl.r # "done" THEN CtlOperand(f, gl)
               ELSE IF (op = "and") # IsTruthy(gl.vs[1]) THEN CtlReturn(ValRet(gl.vs[1]))
               ELSE IF g.r # "done" THEN CtlOperand(f, g)
               ELSE CtlReturn(ValRet(g.vs[2]))
          ELSE IF gl.r # "done" THEN CtlOperand(f, gl)
               ELSE IF g.r # "done" THEN CtlOperand(f, g)
               ELSE IF r.ok THEN CtlReturn(ValRet(r.v))
               ELSE CtlRaise(r.exc, callDepth)
    /\ UNCHANGED <<sess, envs, lists, output, otherVars>>

\* _eval_call up to the entry into the callee's body
EvalCall ==
    /\ Running
    /\ Top.k = "Call"
    /\ LET f == Top
           g == Gather(<<f.n.callee>> \o f.n.arguments, Taken, f.e, envs)
           callee == g.vs[1]
           args == Tail(g.vs)
       IN IF g.r # "done" THEN CtlOperand(f, g) /\ UNCHANGED <<envs, lists, output>>
          ELSE IF callee.t = "builtin" THEN
              IF BuiltinArityMismatch(BuiltinArity(callee.name), Len(args))
              THEN /\ CtlRaise(ArityError(callee.name, BuiltinArity(callee.name), Len(args)),
                               callDepth)
                   /\ UNCHANGED <<envs, lists, output>>
              ELSE \E line \in (IF callee.name = "input" THEN InputLines \cup {"EOF"} ELSE {""}) :
                   LET r == PureBuiltin(callee.name, args, lists, line) IN
                   IF r.ok /\ callee.name = "input" /\ line = "EOF"
                   THEN /\ CtlRaise([kind |-> "EOFError"], callDepth)
                        /\ UNCHANGED <<envs, lists, output>>
                   ELSE IF ~r.ok
                   THEN CtlRaise(r.exc, callDepth) /\ UNCHANGED <<envs, lists, output>>
                   ELSE /\ CtlReturn(ValRet(r.v))
                        /\ output' = IF callee.name = "print"
                                     THEN Append(output, JoinFormatted(args, " ", lists))
                                     ELSE output
                        /\ lists' = IF callee.name = "append"
                                    THEN [lists EXCEPT ![args[1].id] = Append(@, args[2])]
                                    ELSE lists
                        /\ UNCHANGED envs
          ELSE IF callee.t = "fn" THEN
              LET params == DefTable[callee.d].params IN
              IF ParamsMismatch(params, args)
              THEN /\ CtlRaise(ArityError(DefTable[callee.d].name, Len(params), Len(args)),
                               callDepth)
                   /\ UNCHANGED <<envs, lists, output>>
              ELSE IF DepthExceeded(callDepth + 1)
              THEN /\ CtlRaise(RuntimeError("Maximum recursion depth exceeded"), 0)
                   /\ UNCHANGED <<envs, lists, output>>
              ELSE /\ callDepth' = callDepth + 1
                   /\ envs' = Append(envs, [NewEnv(callee.c) EXCEPT !.v = BindParams(params, args)])
                   /\ stack' = [stack EXCEPT ![Len(stack)] =
                                   [k |-> "Body", n |-> [d |-> callee.d], e |-> Len(envs) + 1,
                                    i |-> 1, vs |-> <<>>]]
                   /\ ret' = NoRet
                   /\ UNCHANGED <<results, lists, output>>
          ELSE /\ CtlRaise(ErrorNaming("RuntimeError", "Cannot call ", callee,
                                        " (type " \o TypeName(callee) \o ")", lists),
                            callDepth)
               /\ UNCHANGED <<envs, lists, output>>
    /\ UNCHANGED <<sess, otherVars>>

EvalIndex ==
    /\ Running
    /\ Top.k = "Idx"
    /\ LET f == Top
           g == Gather(<<f.n.obj, f.n.index>>, Taken, f.e, envs)
           obj == g.vs[1]
           ix == IF obj.t = "list" THEN IndexResult("List", g.vs[2], Len(lists[obj.id]))
                 ELSE IndexResult("String", g.vs[2], Len(obj.s))
       IN IF g.r # "done" THEN CtlOperand(f, g)
          ELSE IF obj.t \notin {"list", "str"}
               THEN CtlRaise(ErrorNaming("TypeError", "Cannot index into ", obj,
                                         " (type " \o TypeName(obj) \o ")", lists),
                             callDepth)
          ELSE IF ~ix.ok THEN CtlRaise(ix.exc, callDepth)
          ELSE IF obj.t = "list" THEN CtlReturn(ValRet(lists[obj.id][ix.idx + 1]))
          ELSE CtlReturn(ValRet(StrV(SubSeq(obj.s, ix.idx + 1, ix.idx + 1))))
    /\ UNCHANGED <<sess, envs, lists, output, otherVars>>

Idle == [op |-> "none"]

\* Interpreter.__init__ and the session the host is going to run
Init ==
    /\ sess \in 1..Len(Sessions)
    /\ results = <<>>
    /\ stack = <<>>
    /\ ret = NoRet
    /\ envs = <<[p |-> 0, v |-> BuiltinRegistry]>>
    /\ lists = <<>>
    /\ callDepth = 0
    /\ output = <<>>
    /\ eqA = Nil /\ eqB = Nil /\ eqRes = Idle
    /\ envOp = Idle
    /\ lex = Idle /\ par = Idle

Next ==
    \/ Execute
    \/ ExecuteLoop
    \/ ExecBlock
    \/ CallBody
    \/ ExecLet
    \/ ExecIndexAssign
    \/ ExecIf
    \/ ExecWhile
    \/ ExecFnDef
    \/ ExecReturn
    \/ EvalList
    \/ EvalUnary
    \/ EvalBinary
    \/ EvalCall
    \/ EvalIndex

Spec == Init /\ [][Next]_vars

-----------------------------------------------------------------------------
(* The equality operators on their own: operands from a bounded set of     *)
(* values, over a fixed heap of lists.                                     *)

MaxEqNum == 2
EqLists == << <<>>, <<NumV(1)>>, <<BoolV(TRUE)>>, <<NumV(1)>> >>
EqValues ==
    {Nil, BoolV(TRUE), BoolV(FALSE), StrV(""), StrV("1"), StrV("a"),
     FnV(1, 1), FnV(2, 1), BuiltinV("print"), BuiltinV("len")}
    \cup {NumV(n) : n \in 0..MaxEqNum}
    \cup {ListV(id) : id \in 1..Len(EqLists)}

interpVars == <<sess, results, stack, ret, envs, callDepth, output, lex, par>>

InitEq ==
    /\ sess = 1
    /\ results = <<>>
    /\ stack = <<>>
    /\ ret = NoRet
    /\ envs = <<[p |-> 0, v |-> BuiltinRegistry]>>
    /\ lists = EqLists
    /\ callDepth = 0
    /\ output = <<>>
    /\ eqA \in EqValues
    /\ eqB \in EqValues
    /\ eqRes = Idle
    /\ envOp = Idle
    /\ lex = Idle /\ par = Idle

\* `a == b` and `a != b` in _eval_binary, both operands evaluated
Compare ==
    /\ eqRes = Idle
    /\ eqRes' = [op |-> "compared",
                 eq |-> BinaryResult("==", eqA, eqB, lists).v.b,
                 ne |-> BinaryResult("!=", eqA, eqB, lists).v.b]
    /\ UNCHANGED <<eqA, eqB, lists, envOp, interpVars>>

\* the next pair of operands
Operands ==
    /\ eqRes # Idle
    /\ eqA' \in EqValues
    /\ eqB' \in EqValues
    /\ eqRes' = Idle
    /\ UNCHANGED <<lists, envOp, interpVars>>

NextEq == Compare \/ Operands

SpecEq == InitEq /\ [][NextEq]_vars

-----------------------------------------------------------------------------
(* The Environment class on its own: a client creates scopes and calls     *)
(* define, get, set and has on them.                                       *)

MaxEnvs == 3
EnvNames == {"a", "b"}
EnvValues == {NumV(1), NumV(2)}

envOthers == <<sess, results, stack, ret, lists, callDepth, output, eqA, eqB, eqRes,
              lex, par>>

InitEnv ==
    /\ sess = 1
    /\ results = <<>>
    /\ stack = <<>>
    /\ ret = NoRet
    /\ envs = <<NewEnv(0)>>
    /\ lists = <<>>
    /\ callDepth = 0
    /\ output = <<>>
    /\ eqA = Nil /\ eqB = Nil /\ eqRes = Idle
    /\ envOp = Idle
    /\ lex = Idle /\ par = Idle

\* Environment(parent): the client nests each new scope in the innermost one
EnvCreate ==
    /\ Len(envs) < MaxEnvs
    /\ envs' = Append(envs, NewEnv(Len(envs)))
    /\ envOp' = [op |-> "new", e |-> Len(envs) + 1]
    /\ UNCHANGED envOthers

\* env.define(name, value)
EnvDefineCall ==
    /\ \E e \in 1..Len(envs), name \in EnvNames, val \in EnvValues :
        /\ envs' = EnvDefine(envs, e, name, val)
        /\ envOp' = [op |-> "define", e |-> e, name |-> name, val |-> val]
    /\ UNCHANGED envOthers

\* env.set(name, value); ok is FALSE when it raises KeyError
EnvSetCall ==
    /\ \E e \in 1..Len(envs), name \in EnvNames, val \in EnvValues :
        /\ envs' = EnvSet(envs, e, name, val).es
        /\ envOp' = [op |-> "set", e |-> e, name |-> name, val |-> val,
                     ok |-> EnvSet(envs, e, name, val).ok]
    /\ UNCHANGED envOthers

\* env.get(name); ok is FALSE when it raises KeyError
EnvGetCall ==
    /\ \E e \in 1..Len(envs), name \in EnvNames :
        envOp' = [op |-> "get", e |-> e, name |-> name, r |-> EnvGet(envs, e, name)]
    /\ UNCHANGED envs
    /\ UNCHANGED envOthers

\* env.has(name)
EnvHasCall ==
    /\ \E e \in 1..Len(envs), name \in EnvNames :
        envOp' = [op |-> "has", e |-> e, name |-> name, r |-> EnvHas(envs, e, name)]
    /\ UNCHANGED envs
    /\ UNCHANGED envOthers

NextEnv == EnvCreate \/ EnvDefineCall \/ EnvSetCall \/ EnvGetCall \/ EnvHasCall

SpecEnv == InitEnv /\ [][NextEnv]_vars

-----------------------------------------------------------------------------
(* _eval_binary on its own: every operator other than ==, !=, and, or on   *)
(* every pair of operand values.                                           *)

MaxOperand == 3
BinOps == {"+", "-", "*", "/", "%", "<", ">", "<=", ">="}
BinNumbers == {Rat(n, d) : n \in -MaxOperand..MaxOperand, d \in 1..2}
BinLists == << <<NumV(1)>> >>
BinValues ==
    BinNumbers \cup {Nil, BoolV(TRUE), BoolV(FALSE), StrV(""), StrV("a"),
                     ListV(1), FnV(4, 1), BuiltinV("len")}

InitBin ==
    /\ sess = 1
    /\ results = <<>>
    /\ stack = <<>>
    /\ ret = NoRet
    /\ envs = <<[p |-> 0, v |-> BuiltinRegistry]>>
    /\ lists = BinLists
    /\ callDepth = 0
    /\ output = <<>>
    /\ eqA \in BinValues
    /\ eqB \in BinValues
    /\ eqRes = Idle
    /\ envOp = Idle
    /\ lex = Idle /\ par = Idle

\* _eval_binary for `eqA op eqB`, both operands evaluated
ApplyBinary ==
    /\ eqRes = Idle
    /\ \E op \in BinOps : eqRes' = [op |-> op, r |-> BinaryResult(op, eqA, eqB, lists)]
    /\ UNCHANGED <<eqA, eqB, lists, envOp, interpVars>>

\* the next pair of operands
BinOperands ==
    /\ eqRes # Idle
    /\ eqA' \in BinValues
    /\ eqB' \in BinValues
    /\ eqRes' = Idle
    /\ UNCHANGED <<lists, envOp, interpVars>>

NextBin == ApplyBinary \/ BinOperands

SpecBin == InitBin /\ [][NextBin]_vars

-----------------------------------------------------------------------------
(* The lexer (src/ember/lexer.py) on its own *)

\* A source text is a sequence of characters.  A character is written as the
\* string that holds it; the two that are not ASCII carry their names:
\* "e-acute" is U+00E9, a letter, and "superscript-2" is U+00B2, a digit that
\* is no decimal digit.
MaxSource == 4
Chars == {" ", "\n", "#", "\"", "\\", "a", "1", ".", "=", "!", "e-acute", "superscript-2"}

\* F of the value v, v being evaluated once whatever the uses F makes of it
Bind(v, F(_)) == CHOOSE out \in {F(x) : x \in {v}} : TRUE

RECURSIVE Texts(_)
Texts(n) == IF n = 0 THEN {<<>>} ELSE {<<>>} \cup {<<c>> \o t : c \in Chars, t \in Texts(n - 1)}

AsciiLetters ==
    {"a", "b", "c", "d", "e", "f", "g", "h", "i", "j", "k", "l", "m", "n", "o", "p", "q",
     "r", "s", "t", "u", "v", "w", "x", "y", "z", "A", "B", "C", "D", "E", "F", "G", "H",
     "I", "J", "K", "L", "M", "N", "O", "P", "Q", "R", "S", "T", "U", "V", "W", "X", "Y",
     "Z"}

\* str.isdigit, str.isalpha and str.isalnum of the host
DecimalDigits == <<"0", "1", "2", "3", "4", "5", "6", "7", "8", "9">>
IsDecimal(ch) == \E i \in 1..10 : DecimalDigits[i] = ch
IsDigit(ch) == IsDecimal(ch) \/ ch = "superscript-2"
IsAlpha(ch) == ch \in AsciiLetters \cup {"e-acute"}
IsAlnum(ch) == IsAlpha(ch) \/ IsDigit(ch)

SyntaxError(msg, line, column) ==
    [kind |-> "SyntaxError", msg |-> msg, line |-> line, column |-> column]

Token(type, lexeme, literal, line, column) ==
    [type |-> type, lexeme |-> lexeme, literal |-> literal, line |-> line, column |-> column]

\* the keyword table; a lexeme is the sequence of its characters
KEYWORDS(lexeme) ==
    CASE lexeme = <<"l", "e", "t">> -> "LET"
      [] lexeme = <<"f", "n">> -> "FN"
      [] lexeme = <<"i", "f">> -> "IF"
      [] lexeme = <<"e", "l", "i", "f">> -> "ELIF"
      [] lexeme = <<"e", "l", "s", "e">> -> "ELSE"
      [] lexeme = <<"w", "h", "i", "l", "e">> -> "WHILE"
      [] lexeme = <<"d", "o">> -> "DO"
      [] lexeme = <<"e", "n", "d">> -> "END"
      [] lexeme = <<"r", "e", "t", "u", "r", "n">> -> "RETURN"
      [] lexeme = <<"a", "n", "d">> -> "AND"
      [] lexeme = <<"o", "r">> -> "OR"
      [] lexeme = <<"n", "o", "t">> -> "NOT"
      [] lexeme = <<"t", "r", "u", "e">> -> "TRUE"
      [] lexeme = <<"f", "a", "l", "s", "e">> -> "FALSE"
      [] lexeme = <<"n", "i", "l">> -> "NIL"
      [] OTHER -> "IDENTIFIER"

\* the Lexer object once tokenize has reset it for a source
NewLexer(source) ==
    [source |-> source, tokens |-> <<>>, pos |-> 0, line |-> 1, column |-> 1,
     st |-> "scanning", exc |-> OkResult]

AtEnd(L) == L.pos >= Len(L.source)
Peek(L) == IF AtEnd(L) THEN "NUL" ELSE L.source[L.pos + 1]
PeekNext(L) == IF L.pos + 1 >= Len(L.source) THEN "NUL" ELSE L.source[L.pos + 2]

\* _advance: the character taken is Peek(L)
Advance(L) ==
    IF Peek(L) = "\n" THEN [L EXCEPT !.pos = @ + 1, !.line = @ + 1, !.column = 1]
    ELSE [L EXCEPT !.pos = @ + 1, !.column = @ + 1]

AddToken(L, type, lexeme, literal) ==
    [L EXCEPT !.tokens = Append(@, Token(type, lexeme, literal, L.line,
                                         L.column - Len(lexeme)))]

LastType(L) == IF L.tokens = <<>> THEN "none" ELSE L.tokens[Len(L.tokens)].type

\* _emit_newline without the test of the token before
EmitNewlineEvery(L) ==
    [L EXCEPT !.tokens = Append(@, Token("NEWLINE", <<"\\", "n">>, Nil, L.line - 1, L.column))]

\* _emit_newline, called once the newline is consumed
EmitNewline(L) ==
    IF L.tokens = <<>> \/ LastType(L) = "NEWLINE" THEN L
    ELSE [L EXCEPT !.tokens = Append(@, Token("NEWLINE", <<"\\", "n">>, Nil,
                                              L.line - 1, L.column))]

\* an exception leaves tokenize: no token list is returned
LexRaise(L, exc) == [L EXCEPT !.st = "error", !.exc = exc]

RECURSIVE SkipComment(_)
SkipComment(L) == IF ~AtEnd(L) /\ Peek(L) # "\n" THEN SkipComment(Advance(L)) ELSE L

\* what an escape sequence adds to the value; esc is <<>> at the end of the source
EscapeValue(esc) ==
    IF esc = <<"n">> THEN <<"\n">>
    ELSE IF esc = <<"t">> THEN <<"\t">>
    ELSE IF esc = <<"\\">> \/ esc = <<"\"">> THEN esc
    ELSE <<"\\">> \o esc

\* the loop of _read_string
RECURSIVE StringBody(_, _)
StringBody(L, value) ==
    IF AtEnd(L) \/ Peek(L) = "\"" THEN [L |-> L, value |-> value]
    ELSE LET ch == Peek(L)
             L1 == Advance(L)
         IN IF ch = "\n" THEN StringBody(L1, Append(value, "\n"))
            ELSE IF ch = "\\"
            THEN IF AtEnd(L1) THEN StringBody(L1, value \o EscapeValue(<<>>))
                 ELSE StringBody(Advance(L1), value \o EscapeValue(<<Peek(L1)>>))
            ELSE StringBody(L1, Append(value, ch))

\* _read_string that reports the place where the source ends
ReadStringErrorAtEnd(L) ==
    LET b == StringBody(L, <<>>) IN
    IF AtEnd(b.L) THEN LexRaise(b.L, SyntaxError("Unterminated string", b.L.line, b.L.column))
    ELSE AddToken(Advance(b.L), "STRING", <<"\"">> \o b.value \o <<"\"">>,
                  [t |-> "str", chars |-> b.value])

\* _read_string, called once the opening quote is consumed
ReadString(L) ==
    LET b == StringBody(L, <<>>) IN
    IF AtEnd(b.L) THEN LexRaise(b.L, SyntaxError("Unterminated string", L.line, L.column - 1))
    ELSE AddToken(Advance(b.L), "STRING", <<"\"">> \o b.value \o <<"\"">>,
                  [t |-> "str", chars |-> b.value])

RECURSIVE Digits(_, _)
Digits(L, chars) ==
    IF ~AtEnd(L) /\ IsDigit(Peek(L))
    THEN Bind(Advance(L), LAMBDA next : Digits(next, Append(chars, Peek(L))))
    ELSE [L |-> L, chars |-> chars]

\* the value of a run of decimal digits
RECURSIVE Decimal(_)
Decimal(chars) ==
    IF chars = <<>> THEN 0
    ELSE 10 * Decimal(SubSeq(chars, 1, Len(chars) - 1))
         + (CHOOSE i \in 0..9 : DecimalDigits[i + 1] = chars[Len(chars)])

RECURSIVE Pow10(_)
Pow10(k) == IF k = 0 THEN 1 ELSE 10 * Pow10(k - 1)

\* float(lexeme) of digits with an optional fractional part
FloatOf(whole, frac) ==
    IF \E i \in 1..Len(whole \o frac) : ~IsDecimal((whole \o frac)[i])
    THEN [ok |-> FALSE, exc |-> HostError("ValueError", "could not convert string to float")]
    ELSE [ok |-> TRUE, v |-> Rat(Decimal(whole \o frac), Pow10(Len(frac)))]

\* _read_number, called once the first digit is consumed
ReadNumber(L, first) ==
    LET w == Digits(L, <<first>>)
        hasFrac == ~AtEnd(w.L) /\ Peek(w.L) = "." /\ IsDigit(PeekNext(w.L))
        f == IF hasFrac THEN Digits(Advance(w.L), <<>>) ELSE [L |-> w.L, chars |-> <<>>]
        lexeme == w.chars \o (IF hasFrac THEN <<".">> ELSE <<>>) \o f.chars
        value == FloatOf(w.chars, f.chars)
    IN IF ~value.ok THEN LexRaise(f.L, value.exc)
       ELSE [f.L EXCEPT !.tokens = Append(@, Token("NUMBER", lexeme, value.v,
                                                   f.L.line, L.column - 1))]

RECURSIVE IdentChars(_, _)
IdentChars(L, chars) ==
    IF ~AtEnd(L) /\ (IsAlnum(Peek(L)) \/ Peek(L) = "_")
    THEN Bind(Advance(L), LAMBDA next : IdentChars(next, Append(chars, Peek(L))))
    ELSE [L |-> L, chars |-> chars]

\* _read_identifier, called once the first character is consumed
ReadIdentifier(L, first) ==
    LET r == IdentChars(L, <<first>>)
        type == KEYWORDS(r.chars)
    IN AddToken(r.L, type, r.chars,
                IF type = "TRUE" THEN BoolV(TRUE)
                ELSE IF type = "FALSE" THEN BoolV(FALSE) ELSE Nil)

\* the single-character tokens
Single(ch) ==
    CASE ch = "+" -> "PLUS" [] ch = "-" -> "MINUS" [] ch = "*" -> "STAR"
      [] ch = "/" -> "SLASH" [] ch = "%" -> "PERCENT" [] ch = "=" -> "EQUAL"
      [] ch = "<" -> "LESS" [] ch = ">" -> "GREATER" [] ch = "(" -> "LPAREN"
      [] ch = ")" -> "RPAREN" [] ch = "[" -> "LBRACKET" [] ch = "]" -> "RBRACKET"
      [] ch = "," -> "COMMA" [] OTHER -> "none"

\* the two-character tokens, by their first character
Double(ch) ==
    CASE ch = "=" -> "EQUAL_EQUAL" [] ch = "!" -> "BANG_EQUAL"
      [] ch = "<" -> "LESS_EQUAL" [] ch = ">" -> "GREATER_EQUAL" [] OTHER -> "none"

\* _scan_token
ScanResult(L0) ==
    LET ch == Peek(L0)
        L == Advance(L0)
    IN IF ch \in {" ", "\t", "\r"} THEN L
       ELSE IF ch = "\n" THEN EmitNewline(L)
       ELSE IF ch = "#" THEN SkipComment(L)
       ELSE IF ch = "\"" THEN ReadString(L)
       ELSE IF IsDigit(ch) THEN ReadNumber(L, ch)
       ELSE IF IsAlpha(ch) \/ ch = "_" THEN ReadIdentifier(L, ch)
       ELSE IF Double(ch) # "none" /\ Peek(L) = "="
       THEN AddToken(Advance(L), Double(ch), <<ch, "=">>, Nil)
       ELSE IF Single(ch) # "none" THEN AddToken(L, Single(ch), <<ch>>, Nil)
       ELSE LexRaise(L, SyntaxError("Unexpected character '" \o ch \o "'", L.line, L.column - 1))

\* the end of tokenize with a closing NEWLINE for a source without tokens too
FinishResultAlwaysNewline(L) ==
    LET closed == IF LastType(L) \notin {"NEWLINE", "EOF"}
                  THEN Append(L.tokens, Token("NEWLINE", <<"\\", "n">>, Nil, L.line, L.column))
                  ELSE L.tokens
    IN [L EXCEPT !.tokens = Append(closed, Token("EOF", <<>>, Nil, L.line, L.column)),
                 !.st = "done"]

\* the end of tokenize: the closing NEWLINE and the EOF token
FinishResult(L) ==
    LET closed == IF L.tokens # <<>> /\ LastType(L) \notin {"NEWLINE", "EOF"}
                  THEN Append(L.tokens, Token("NEWLINE", <<"\\", "n">>, Nil, L.line, L.column))
                  ELSE L.tokens
    IN [L EXCEPT !.tokens = Append(closed, Token("EOF", <<>>, Nil, L.line, L.column)),
                 !.st = "done"]

\* tokenize is under way, has returned lex.tokens, or has raised lex.exc
Scanning == lex.st = "scanning"
Tokenized == lex.st = "done"
TokenizeFailed == lex.st = "error"

InitLex ==
    /\ lex \in {NewLexer(source) : source \in Texts(MaxSource)}
    /\ par = Idle
    /\ sess = 1
    /\ results = <<>>
    /\ stack = <<>>
    /\ ret = NoRet
    /\ envs = <<>>
    /\ lists = <<>>
    /\ callDepth = 0
    /\ output = <<>>
    /\ eqA = Nil /\ eqB = Nil /\ eqRes = Idle
    /\ envOp = Idle

lexOthers == <<par, sess, results, stack, ret, envs, lists, callDepth, output,
               eqA, eqB, eqRes, envOp>>

\* one turn of the loop of tokenize
ScanToken ==
    /\ Scanning
    /\ ~AtEnd(lex)
    /\ lex' = ScanResult(lex)
    /\ UNCHANGED lexOthers

\* the loop of tokenize is left
TokenizeEnd ==
    /\ Scanning
    /\ AtEnd(lex)
    /\ lex' = FinishResult(lex)
    /\ UNCHANGED lexOthers

NextLex == ScanToken \/ TokenizeEnd

SpecLex == InitLex /\ [][NextLex]_vars

-----------------------------------------------------------------------------
(* The parser (src/ember/parser.py) on its own *)

PREC_NONE == 0
PREC_OR == 1
PREC_AND == 2
PREC_NOT == 3
PREC_EQUALITY == 4
PREC_COMPARISON == 5
PREC_ADDITION == 6
PREC_MULTIPLICATION == 7
PREC_UNARY == 8
PREC_CALL == 9

INFIX_PRECEDENCE(type) ==
    CASE type = "OR" -> PREC_OR
      [] type = "AND" -> PREC_AND
      [] type \in {"EQUAL_EQUAL", "BANG_EQUAL"} -> PREC_EQUALITY
      [] type \in {"LESS", "GREATER", "LESS_EQUAL", "GREATER_EQUAL"} -> PREC_COMPARISON
      [] type \in {"PLUS", "MINUS"} -> PREC_ADDITION
      [] type \in {"STAR", "SLASH", "PERCENT"} -> PREC_MULTIPLICATION
      [] type \in {"LPAREN", "LBRACKET"} -> PREC_CALL
      [] OTHER -> PREC_NONE

\* the text of a sequence of characters
RECURSIVE JoinChars(_)
JoinChars(chars) == IF chars = <<>> THEN "" ELSE chars[1] \o JoinChars(Tail(chars))

\* an AST node carries the line and column of the token it is made at
At(node, tok) == node @@ [line |-> tok.line, column |-> tok.column]

FunctionDef(name, params, body) == [k |-> "Fn", name |-> name, params |-> params, body |-> body]
Program(statements) == [k |-> "Program", statements |-> statements, line |-> 1, column |-> 1]

\* what a parsing method ends with: a node (or a token, or a list of nodes) and the
\* new position, or the error it raises
Parsed(node, pos) == [ok |-> TRUE, node |-> node, pos |-> pos]
ParseError(exc) == [ok |-> FALSE, exc |-> exc]

\* One call after another: the error r raised or, when r raised none, what Rest does
\* with what r returned; r is evaluated once.
Then(r, Rest(_)) == Bind(r, LAMBDA x : IF x.ok THEN Rest(x) ELSE x)

\* _current, _advance, _check and _consume; a position counts the tokens consumed
Current(T, p) == T[p + 1]
AdvancePos(T, p) == IF Current(T, p).type # "EOF" THEN p + 1 ELSE p
Check(T, p, tt) == Current(T, p).type = tt
Consume(T, p, tt, message) ==
    IF ~Check(T, p, tt)
    THEN ParseError(SyntaxError(message \o ", got '" \o JoinChars(Current(T, p).lexeme) \o "'",
                                Current(T, p).line, Current(T, p).column))
    ELSE Parsed(Current(T, p), AdvancePos(T, p))

RECURSIVE SkipNewlines(_, _)
SkipNewlines(T, p) == IF Check(T, p, "NEWLINE") THEN SkipNewlines(T, AdvancePos(T, p)) ELSE p

\* _expect_newline
ExpectNewline(T, p) ==
    IF Check(T, p, "EOF") THEN Parsed(Nil, p)
    ELSE IF Check(T, p, "NEWLINE") THEN Parsed(Nil, AdvancePos(T, p))
    ELSE IF Current(T, p).type \in {"END", "ELIF", "ELSE"} THEN Parsed(Nil, p)
    ELSE ParseError(SyntaxError("Expected newline after statement, got '"
                                    \o JoinChars(Current(T, p).lexeme) \o "'",
                                Current(T, p).line, Current(T, p).column))

RECURSIVE ParseExpression(_, _, _)
RECURSIVE InfixLoop(_, _, _, _)
RECURSIVE ParsePrefix(_, _)
RECURSIVE ParseInfix(_, _, _, _)
RECURSIVE ExpressionList(_, _, _)
RECURSIVE MoreExpressions(_, _, _)
RECURSIVE ParseListLiteral(_, _)

\* _parse_expression
ParseExpression(T, p, min_prec) ==
    Then(ParsePrefix(T, p), LAMBDA left : InfixLoop(T, left.node, left.pos, min_prec))

\* the loop of _parse_expression
InfixLoop(T, left, p, min_prec) ==
    LET prec == INFIX_PRECEDENCE(Current(T, p).type) IN
    IF prec <= min_prec THEN Parsed(left, p)
    ELSE Then(ParseInfix(T, left, p, prec), LAMBDA r : InfixLoop(T, r.node, r.pos, min_prec))

\* _parse_prefix
ParsePrefix(T, p) ==
    LET tok == Current(T, p)
        q == AdvancePos(T, p)
    IN CASE tok.type = "NUMBER" -> Parsed(At(Num(tok.literal), tok), q)
         [] tok.type = "STRING" -> Parsed(At(Str(JoinChars(tok.literal.chars)), tok), q)
         [] tok.type = "TRUE" -> Parsed(At(Bool(TRUE), tok), q)
         [] tok.type = "FALSE" -> Parsed(At(Bool(FALSE), tok), q)
         [] tok.type = "NIL" -> Parsed(At(NilLit, tok), q)
         [] tok.type = "IDENTIFIER" -> Parsed(At(Id(JoinChars(tok.lexeme)), tok), q)
         [] tok.type = "LPAREN" ->
              Then(ParseExpression(T, q, PREC_NONE), LAMBDA e :
              Then(Consume(T, e.pos, "RPAREN", "Expected ')' after expression"), LAMBDA c :
              Parsed(e.node, c.pos)))
         [] tok.type = "LBRACKET" -> ParseListLiteral(T, p)
         [] tok.type = "MINUS" ->
              Then(ParseExpression(T, q, PREC_UNARY), LAMBDA e :
              Parsed(At(Un("-", e.node), tok), e.pos))
         [] tok.type = "NOT" ->
              Then(ParseExpression(T, q, PREC_NOT), LAMBDA e :
              Parsed(At(Un("not", e.node), tok), e.pos))
         [] OTHER ->
              ParseError(SyntaxError("Unexpected token '" \o JoinChars(tok.lexeme) \o "'",
                                     tok.line, tok.column))

\* the expressions between an opening token and the token that closes them
ExpressionList(T, p, close) ==
    IF Check(T, p, close) THEN Parsed(<<>>, p)
    ELSE Then(ParseExpression(T, p, PREC_NONE), LAMBDA e :
         MoreExpressions(T, <<e.node>>, e.pos))

MoreExpressions(T, nodes, p) ==
    IF ~Check(T, p, "COMMA") THEN Parsed(nodes, p)
    ELSE Then(ParseExpression(T, AdvancePos(T, p), PREC_NONE), LAMBDA e :
         MoreExpressions(T, Append(nodes, e.node), e.pos))

\* _parse_infix that lets the right operand take operators of the same precedence
ParseInfixRightFirst(T, left, p, prec) ==
    LET tok == Current(T, p)
        q == AdvancePos(T, p)
    IN IF tok.type = "LPAREN" THEN
           Then(ExpressionList(T, q, "RPAREN"), LAMBDA args :
           Then(Consume(T, args.pos, "RPAREN", "Expected ')' after arguments"), LAMBDA c :
           Parsed(At(Call(left, args.node), tok), c.pos)))
       ELSE IF tok.type = "LBRACKET" THEN
           Then(ParseExpression(T, q, PREC_NONE), LAMBDA index :
           Then(Consume(T, index.pos, "RBRACKET", "Expected ']' after index"), LAMBDA c :
           Parsed(At(Idx(left, index.node), tok), c.pos)))
       ELSE Then(ParseExpression(T, q, prec - 1), LAMBDA right :
            Parsed(At(Bin(JoinChars(tok.lexeme), left, right.node), tok), right.pos))

\* _parse_infix
ParseInfix(T, left, p, prec) ==
    LET tok == Current(T, p)
        q == AdvancePos(T, p)
    IN IF tok.type = "LPAREN" THEN
           Then(ExpressionList(T, q, "RPAREN"), LAMBDA args :
           Then(Consume(T, args.pos, "RPAREN", "Expected ')' after arguments"), LAMBDA c :
           Parsed(At(Call(left, args.node), tok), c.pos)))
       ELSE IF tok.type = "LBRACKET" THEN
           Then(ParseExpression(T, q, PREC_NONE), LAMBDA index :
           Then(Consume(T, index.pos, "RBRACKET", "Expected ']' after index"), LAMBDA c :
           Parsed(At(Idx(left, index.node), tok), c.pos)))
       ELSE Then(ParseExpression(T, q, prec), LAMBDA right :
            Parsed(At(Bin(JoinChars(tok.lexeme), left, right.node), tok), right.pos))

\* _parse_list_literal
ParseListLiteral(T, p) ==
    Then(ExpressionList(T, AdvancePos(T, p), "RBRACKET"), LAMBDA elements :
    Then(Consume(T, elements.pos, "RBRACKET", "Expected ']' after list elements"), LAMBDA c :
    Parsed(At(ListLit(elements.node), Current(T, p)), c.pos)))

\* a statement's node once _expect_newline has accepted what follows it
Terminated(T, node, p) == Then(ExpectNewline(T, p), LAMBDA nl : Parsed(node, nl.pos))

\* _parse_let
ParseLet(T, p) ==
    LET let_tok == Current(T, p) IN
    Then(Consume(T, AdvancePos(T, p), "IDENTIFIER", "Expected variable name after 'let'"),
         LAMBDA name :
    IF Check(T, name.pos, "LBRACKET") THEN
        Then(ParseExpression(T, AdvancePos(T, name.pos), PREC_NONE), LAMBDA index :
        Then(Consume(T, index.pos, "RBRACKET", "Expected ']' after index"), LAMBDA rb :
        Then(Consume(T, rb.pos, "EQUAL", "Expected '=' in assignment"), LAMBDA eq :
        Then(ParseExpression(T, eq.pos, PREC_NONE), LAMBDA value :
        Terminated(T, At(IdxAsg(At(Id(JoinChars(name.node.lexeme)), name.node),
                                index.node, value.node), let_tok),
                   value.pos)))))
    ELSE Then(Consume(T, name.pos, "EQUAL", "Expected '=' after variable name"), LAMBDA eq :
         Then(ParseExpression(T, eq.pos, PREC_NONE), LAMBDA value :
         Terminated(T, At(Let(JoinChars(name.node.lexeme), value.node), let_tok),
                    value.pos))))

\* _parse_return
ParseReturn(T, p) ==
    LET ret_tok == Current(T, p)
        q == AdvancePos(T, p)
    IN IF ~Check(T, q, "NEWLINE") /\ ~Check(T, q, "EOF") THEN
           Then(ParseExpression(T, q, PREC_NONE), LAMBDA value :
           Terminated(T, At(Ret(value.node), ret_tok), value.pos))
       ELSE Terminated(T, At(RetNone, ret_tok), q)

\* _parse_expression_statement
ParseExpressionStatement(T, p) ==
    Then(ParseExpression(T, p, PREC_NONE), LAMBDA e :
    Terminated(T, At(Expr(e.node), e.node), e.pos))

\* `condition do NEWLINE`: the head of a block
BlockHead(T, p, message) ==
    Then(ParseExpression(T, p, PREC_NONE), LAMBDA condition :
    Then(Consume(T, condition.pos, "DO", message), LAMBDA do :
    Terminated(T, condition.node, do.pos)))

\* the parameter names after the first
RECURSIVE MoreParams(_, _, _)
MoreParams(T, params, p) ==
    IF ~Check(T, p, "COMMA") THEN Parsed(params, p)
    ELSE Then(Consume(T, AdvancePos(T, p), "IDENTIFIER", "Expected parameter name"),
              LAMBDA name :
         MoreParams(T, Append(params, JoinChars(name.node.lexeme)), name.pos))

RECURSIVE ParseStatement(_, _)
RECURSIVE ParseBlock(_, _)
RECURSIVE BlockStatements(_, _, _)
RECURSIVE ParseIf(_, _)
RECURSIVE ElifClauses(_, _, _)
RECURSIVE ParseWhile(_, _)
RECURSIVE ParseFn(_, _)

\* _parse_block
ParseBlock(T, p) == BlockStatements(T, <<>>, SkipNewlines(T, p))

BlockStatements(T, stmts, p) ==
    IF Current(T, p).type \in {"END", "ELIF", "ELSE", "EOF"} THEN Parsed(stmts, p)
    ELSE Then(ParseStatement(T, p), LAMBDA s :
         BlockStatements(T, Append(stmts, s.node), SkipNewlines(T, s.pos)))

\* the elif clauses of _parse_if
ElifClauses(T, clauses, p) ==
    IF ~Check(T, p, "ELIF") THEN Parsed(clauses, p)
    ELSE Then(BlockHead(T, AdvancePos(T, p), "Expected 'do' after elif condition"),
              LAMBDA head :
         Then(ParseBlock(T, head.pos), LAMBDA body :
         ElifClauses(T, Append(clauses, <<head.node, body.node>>), body.pos)))

\* the else clause of _parse_if, when there is one
ElseClause(T, p) ==
    IF ~Check(T, p, "ELSE") THEN Parsed(NoElse, p)
    ELSE Then(Consume(T, AdvancePos(T, p), "DO", "Expected 'do' after else"), LAMBDA do :
         Then(ExpectNewline(T, do.pos), LAMBDA nl :
         Then(ParseBlock(T, nl.pos), LAMBDA body :
         Parsed(Else(body.node), body.pos))))

\* _parse_if
ParseIf(T, p) ==
    LET if_tok == Current(T, p) IN
    Then(BlockHead(T, AdvancePos(T, p), "Expected 'do' after if condition"), LAMBDA head :
    Then(ParseBlock(T, head.pos), LAMBDA then_body :
    Then(ElifClauses(T, <<>>, then_body.pos), LAMBDA elifs :
    Then(ElseClause(T, elifs.pos), LAMBDA else_body :
    Then(Consume(T, else_body.pos, "END", "Expected 'end' to close if block"), LAMBDA end :
    Terminated(T, At(If(head.node, then_body.node, elifs.node, else_body.node), if_tok),
               end.pos))))))

\* _parse_while
ParseWhile(T, p) ==
    LET while_tok == Current(T, p) IN
    Then(BlockHead(T, AdvancePos(T, p), "Expected 'do' after while condition"), LAMBDA head :
    Then(ParseBlock(T, head.pos), LAMBDA body :
    Then(Consume(T, body.pos, "END", "Expected 'end' to close while block"), LAMBDA end :
    Terminated(T, At(While(head.node, body.node), while_tok), end.pos))))

\* the parameters of _parse_fn
Params(T, p) ==
    IF Check(T, p, "RPAREN") THEN Parsed(<<>>, p)
    ELSE Then(Consume(T, p, "IDENTIFIER", "Expected parameter name"), LAMBDA first :
         MoreParams(T, <<JoinChars(first.node.lexeme)>>, first.pos))

\* _parse_fn
ParseFn(T, p) ==
    LET fn_tok == Current(T, p) IN
    Then(Consume(T, AdvancePos(T, p), "IDENTIFIER", "Expected function name after 'fn'"),
         LAMBDA name :
    Then(Consume(T, name.pos, "LPAREN", "Expected '(' after function name"), LAMBDA lp :
    Then(Params(T, lp.pos), LAMBDA params :
    Then(Consume(T, params.pos, "RPAREN", "Expected ')' after parameters"), LAMBDA rp :
    Then(Consume(T, rp.pos, "DO", "Expected 'do' after function signature"), LAMBDA do :
    Then(ExpectNewline(T, do.pos), LAMBDA nl :
    Then(ParseBlock(T, nl.pos), LAMBDA body :
    Then(Consume(T, body.pos, "END", "Expected 'end' to close function body"), LAMBDA end :
    Terminated(T, At(FunctionDef(JoinChars(name.node.lexeme), params.node, body.node),
                     fn_tok),
               end.pos)))))))))

\* _parse_statement
ParseStatement(T, p) ==
    CASE Check(T, p, "LET") -> ParseLet(T, p)
      [] Check(T, p, "IF") -> ParseIf(T, p)
      [] Check(T, p, "WHILE") -> ParseWhile(T, p)
      [] Check(T, p, "FN") -> ParseFn(T, p)
      [] Check(T, p, "RETURN") -> ParseReturn(T, p)
      [] OTHER -> ParseExpressionStatement(T, p)

\* the loop of parse
RECURSIVE ProgramStatements(_, _, _)
ProgramStatements(T, stmts, p) ==
    IF Check(T, p, "EOF") THEN Parsed(stmts, p)
    ELSE Then(ParseStatement(T, p), LAMBDA s :
         ProgramStatements(T, Append(stmts, s.node), SkipNewlines(T, s.pos)))

\* parse
ParseResult(T) ==
    Then(ProgramStatements(T, <<>>, SkipNewlines(T, 0)), LAMBDA stmts :
    Parsed(Program(stmts.node), stmts.pos))

\* tokenize as a whole
RECURSIVE TokenizeFrom(_)
TokenizeFrom(L) ==
    IF L.st # "scanning" THEN L
    ELSE IF AtEnd(L) THEN FinishResult(L)
    ELSE Bind(ScanResult(L), LAMBDA next : TokenizeFrom(next))

CharsOf(text) == [i \in 1..Len(text) |-> SubSeq(text, i, i)]
Tokenize(text) == TokenizeFrom(NewLexer(CharsOf(text))).tokens

\* The inputs of parse.  An expression input is a chain of operands joined by
\* binary operators; a statement input is a statement, at top level or inside a
\* block, and the token put after it.  Both are written as source text and
\* given to the lexer; parse also takes a token list whose closing NEWLINE is
\* missing, which the lexer never produces.
MaxOperators == 3
BinaryOperators == {"or", "and", "==", "!=", "<", ">", "<=", ">=", "+", "-", "*", "/", "%"}
OperandTexts == <<"a", "1", "b", "2.5">>
OperandText(i) == OperandTexts[((i - 1) % Len(OperandTexts)) + 1]

RECURSIVE OperatorRuns(_)
OperatorRuns(n) ==
    IF n = 0 THEN {<<>>}
    ELSE {<<>>} \cup {Append(r, o) : r \in OperatorRuns(n - 1), o \in BinaryOperators}

RECURSIVE ChainText(_)
ChainText(ops) ==
    IF ops = <<>> THEN OperandText(1)
    ELSE ChainText(SubSeq(ops, 1, Len(ops) - 1)) \o " " \o ops[Len(ops)] \o " "
         \o OperandText(Len(ops) + 1)

ExpressionInputs == {[kind |-> "expr", ops |-> r] : r \in OperatorRuns(MaxOperators)}

StatementTexts ==
    <<"let x = 1", "let x[0] = 1", "return 1", "return", "f(x)", "x", "while c do\nend">>
Terminators == {"\n", "EOF", "end", "elif", "else"}
\* tokens an expression can start with: after a bare `return` they make it a
\* `return` with a value, which is another statement
ExpressionStarters == {"not", "y", "1"}
OtherFollowers == {")", "]", ",", "=", "do", "let"} \cup ExpressionStarters
\* a block is closed by end, elif or else and the top level by the end of the tokens
FollowersIn(ctx) ==
    OtherFollowers \cup (IF ctx = "top" THEN {"\n", "EOF"} ELSE Terminators \ {"EOF"})
FollowersOf(ctx, i) ==
    IF StatementTexts[i] = "return" THEN FollowersIn(ctx) \ ExpressionStarters
    ELSE FollowersIn(ctx)
StatementInputs ==
    UNION {{[kind |-> "stmt", ctx |-> c, stmt |-> i, follower |-> f] : f \in FollowersOf(c, i)} :
               c \in {"top", "block"}, i \in 1..Len(StatementTexts)}

\* the text before the statement of a statement input
Prefix(in) == IF in.ctx = "top" THEN "" ELSE "if c do\n"

\* the text of a statement input; in a block, what follows the statement closes the block
InputText(in) ==
    IF in.kind = "expr" THEN ChainText(in.ops)
    ELSE Prefix(in) \o StatementTexts[in.stmt]
         \o (CASE in.follower = "\n" -> "\n"
               [] in.follower = "EOF" -> ""
               [] in.follower = "elif" -> " elif d do\n"
               [] in.follower = "else" -> " else do\n"
               [] OTHER -> " " \o in.follower \o "\n")
         \o (IF in.ctx = "block" /\ in.follower # "end" THEN "end" ELSE "")

DropClosingNewline(T) == SubSeq(T, 1, Len(T) - 2) \o <<T[Len(T)]>>

InputTokens(in) ==
    IF in.kind = "stmt" /\ in.follower = "EOF" THEN DropClosingNewline(Tokenize(InputText(in)))
    ELSE Tokenize(InputText(in))

\* the Parser object once parse has been given the tokens
NewParser(in) == [input |-> in, tokens |-> InputTokens(in), st |-> "ready", out |-> OkResult]

InitParse ==
    /\ par \in {NewParser(in) : in \in ExpressionInputs \cup StatementInputs}
    /\ lex = Idle
    /\ sess = 1 /\ results = <<>> /\ stack = <<>> /\ ret = NoRet
    /\ envs = <<>> /\ lists = <<>> /\ callDepth = 0 /\ output = <<>>
    /\ eqA = Nil /\ eqB = Nil /\ eqRes = <<>> /\ envOp = Idle

parOthers == <<sess, results, stack, ret, envs, lists, callDepth, output, eqA, eqB, eqRes,
               envOp, lex>>

\* parse: it returns the Program or raises the first error
Parse ==
    /\ par.st = "ready"
    /\ LET r == ParseResult(par.tokens) IN
       par' = [par EXCEPT !.st = IF r.ok THEN "done" ELSE "error", !.out = r]
    /\ UNCHANGED parOthers

NextParse == Parse

SpecParse == InitParse /\ [][NextParse]_vars

-----------------------------------------------------------------------------
(* Notions the properties are stated in *)

Last(q) == q[Len(q)]

\* control is at the top level of the Interpreter
AtTopLevel == ~Running \/ (Len(stack) = 1 /\ Top.k = "Exec")

\* the user-function frames that are active
ActiveCalls == Cardinality({i \in 1..Len(stack) : stack[i].k = "Body"})

DepthError == RuntimeError("Maximum recursion depth exceeded")

\* no execute call on this Interpreter has ended in the depth error
FreshInterpreter == \A j \in 1..Len(results) : results[j] # DepthError

\* the top frame is a call whose callee and arguments are evaluated, the callee a user
\* function and the argument count matching
AtFunctionEntry ==
    /\ Running
    /\ Top.k = "Call"
    /\ LET g == Gather(<<Top.n.callee>> \o Top.n.arguments, Taken, Top.e, envs) IN
        /\ g.r = "done"
        /\ g.vs[1].t = "fn"
        /\ Len(g.vs) - 1 = Len(DefTable[g.vs[1].d].params)

\* the top frame is a `return` whose value, if any, is evaluated
AtReturn ==
    /\ Running
    /\ Top.k = "Ret"
    /\ Gather(Top.n.value, Taken, Top.e, envs).r = "done"

ReturnedValue ==
    LET g == Gather(Top.n.value, Taken, Top.e, envs) IN
    IF g.vs = <<>> THEN Nil ELSE g.vs[1]

\* the scopes of the chain of e, nearest first
RECURSIVE ScopeChain(_, _)
ScopeChain(es, e) == IF e = 0 THEN <<>> ELSE <<e>> \o ScopeChain(es, es[e].p)

\* the nearest scope of the chain of e that binds name, 0 if none does
Holder(es, e, name) ==
    LET c == ScopeChain(es, e)
        holding == {j \in 1..Len(c) : name \in DOMAIN es[c[j]].v}
    IN IF holding = {} THEN 0 ELSE c[SetMin(holding)]

\* the step ends the running execute call with an error
FailureStep == Running /\ ~Running' /\ Last(results').kind # "ok"

-----------------------------------------------------------------------------
(* C1: whenever control is at the top level of an Interpreter (before      *)
(* execute, between top-level statements, after execute returned or        *)
(* raised), the call-depth counter is 0.                                   *)
C1_DepthZeroAtTopLevel == AtTopLevel => callDepth = 0

C3_TopLevelReturnNoError ==
    \A j \in 1..Len(results) : results[j].kind # "ReturnSignal"

(* C4: inside a call, `return` at any nesting depth of if/while bodies     *)
(* ends exactly the nearest enclosing call: every frame above that call's  *)
(* frame is dropped with it and nothing else, the call evaluates to the    *)
(* returned value (Nil for a bare return and at the end of the body), and  *)
(* no later statement of the body runs.                                    *)
C4_ReturnEndsNearestCall ==
    /\ [][(AtReturn /\ ActiveCalls > 0) =>
            \E b \in 1..Len(stack) :
                /\ stack[b].k = "Body"
                /\ \A j \in (b + 1)..Len(stack) : stack[j].k # "Body"
                /\ stack' = SubSeq(stack, 1, b - 1)
                /\ ret' = ValRet(ReturnedValue)
                /\ callDepth' = callDepth - 1
                /\ results' = results
                /\ envs' = envs /\ lists' = lists /\ output' = output]_vars
    /\ [][(Running /\ Top.k = "Body" /\ Top.i > Len(DefTable[Top.n.d].body)) =>
            /\ stack' = Popped
            /\ ret' = ValRet(Nil)]_vars
    /\ [](\A j \in 1..Len(output) : output[j] # "unreached")
    /\ [](sess = 3 /\ ~Running /\ Len(results) = 1 =>
            output = <<"11", "after loop", "nil", "in bare", "nil", "nil",
                       "inner", "outer", "end">>)

C4_Witness ==
    /\ sess = 3
    /\ ret = ValRet(StrV("inner"))
    /\ ActiveCalls = 1
    /\ Last(stack).k = "Call"

(* C5: every failure of execute is a Runtime or Type error; no other kind  *)
(* of failure leaves the call.                                             *)
C5_OnlyEmberErrors ==
    \A j \in 1..Len(results) : results[j].kind \in {"ok", "RuntimeError", "TypeError"}

(* C6: when evaluation fails, execute raises that error, nothing runs      *)
(* after the failure point, and the output, Environments and Lists are     *)
(* left as the steps before the failure made them.                         *)
C6_FailureStopsExecution ==
    /\ [][FailureStep =>
            /\ stack' = <<>>
            /\ results' = Append(results, Last(results'))
            /\ output' = output
            /\ lists' = lists
            /\ \A e \in 1..Len(envs) : envs'[e] = envs[e]]_vars
    /\ [][~Running => (output' = output /\ lists' = lists /\ envs' = envs)]_vars
    /\ [][/\ Len(output') >= Len(output)
          /\ SubSeq(output', 1, Len(output)) = output
          /\ Len(lists') >= Len(lists)
          /\ Len(envs') >= Len(envs)]_vars
    /\ [](\A j \in 1..Len(output) : output[j] # "unreached")
    /\ [](sess = 5 /\ Len(results) >= 1 =>
            /\ results[1] = RuntimeError("Division by zero")
            /\ SubSeq(output, 1, 1) = <<"in bad">>
            /\ lists[1] = <<NumV(1), NumV(1)>>)

C6_Witness ==
    /\ sess = 5
    /\ results = <<RuntimeError("Division by zero")>>
    /\ output = <<"in bad">>
    /\ lists = << <<NumV(1), NumV(1)>> >>
    /\ EnvGet(envs, 1, "i").v = NumV(1)

\* the Ember type of a value; Builtin and Function are both "function"
EmberType(v) == TypeName(v)

(* C7: `a == b` is true for Nil only when both are Nil; values of          *)
(* different types are unequal (`==` false, `!=` true); same-type scalars  *)
(* are equal exactly when their values are; `!=` is the negation of `==`.  *)
C7_Equality ==
    eqRes # Idle =>
        /\ (eqA.t = "nil" \/ eqB.t = "nil") => (eqRes.eq <=> (eqA.t = "nil" /\ eqB.t = "nil"))
        /\ EmberType(eqA) # EmberType(eqB) => (~eqRes.eq /\ eqRes.ne)
        /\ (EmberType(eqA) = EmberType(eqB) /\ eqA.t \in {"nil", "bool", "num", "str"})
                => (eqRes.eq <=> eqA = eqB)
        /\ eqRes.ne <=> ~eqRes.eq

\* an execute call has just been entered
ExecuteEntered == Len(stack) = 1 /\ Top.k = "Exec" /\ Top.i = 1

(* C8: each execute call runs against a fresh global Environment holding   *)
(* exactly the built-in registry.                                          *)
C8_FreshGlobalsPerExecute == ExecuteEntered => envs[1].v = BuiltinRegistry

(* C8, amended: the global Environment is created once, with the built-in  *)
(* registry, when the Interpreter is constructed; every execute call runs  *)
(* against that same Environment and finds in it what earlier execute      *)
(* calls left there.                                                       *)
C8_GlobalsPersist ==
    /\ [][~Running => envs' = envs]_vars
    /\ [](ExecuteEntered => (Top.e = 1 /\ envs[1].p = 0))
    /\ [](ExecuteEntered /\ Len(results) = 0 => envs = <<[p |-> 0, v |-> BuiltinRegistry]>>)
    /\ [](sess = 6 /\ Len(results) = 2 => results[2] = RuntimeError("Cannot call 1 (type number)"))

C8_Witness ==
    /\ sess = 6
    /\ ExecuteEntered
    /\ Len(results) = 1
    /\ envs[1].v["x"] = NumV(10)
    /\ envs[1].v["print"] = NumV(1)

\* the top frame is a `let name = expr` whose expr is evaluated
AtLetBinding ==
    /\ Running
    /\ Top.k = "Let"
    /\ Gather(<<Top.n.value>>, Taken, Top.e, envs).r = "done"

(* C9: `let name = expr`, expr evaluated: if name is bound in the current  *)
(* scope or an enclosing one, the nearest such binding is updated and no   *)
(* binding is created; otherwise the binding is created in the current     *)
(* scope only.                                                             *)
C9_LetRebindsNearest ==
    [][AtLetBinding =>
        LET name == Top.n.name
            v == Gather(<<Top.n.value>>, Taken, Top.e, envs).vs[1]
            h == Holder(envs, Top.e, name)
        IN IF h # 0
           THEN /\ envs' = [envs EXCEPT ![h].v[name] = v]
                /\ \A e \in 1..Len(envs) : DOMAIN envs'[e].v = DOMAIN envs[e].v
           ELSE /\ Len(envs') = Len(envs)
                /\ \A e \in 1..Len(envs) : e # Top.e => envs'[e] = envs[e]
                /\ DOMAIN envs'[Top.e].v = DOMAIN envs[Top.e].v \cup {name}
                /\ envs'[Top.e].v[name] = v
                /\ \A n \in DOMAIN envs[Top.e].v : envs'[Top.e].v[n] = envs[Top.e].v[n]]_vars

\* a `let x` in a block has updated the global x, and the block's own scope holds
\* only the name first bound in it
C9_Witness ==
    /\ sess = 6
    /\ "x" \in DOMAIN envs[1].v
    /\ envs[1].v["x"] = NumV(2)
    /\ \E e \in 2..Len(envs) : envs[e].p = 1 /\ DOMAIN envs[e].v = {"y"}

(* C10: Environment.set(name, value) changes exactly the binding of name   *)
(* in the nearest scope of the chain that contains name and nothing else;  *)
(* when no scope contains name it fails and changes nothing; it never adds *)
(* a name to a scope.                                                      *)
C10_SetUpdatesNearestOnly ==
    [][envOp'.op = "set" =>
        LET h == Holder(envs, envOp'.e, envOp'.name) IN
        /\ envOp'.ok <=> h # 0
        /\ h # 0 => envs' = [envs EXCEPT ![h].v[envOp'.name] = envOp'.val]
        /\ h = 0 => envs' = envs
        /\ Len(envs') = Len(envs)
        /\ \A e \in 1..Len(envs) : DOMAIN envs'[e].v = DOMAIN envs[e].v]_vars

\* a set through a child scope that does not bind the name has updated the parent,
\* and a failed set
C10_Witness ==
    /\ envOp.op = "set"
    /\ envOp.ok
    /\ envOp.e > 1
    /\ envOp.name \notin DOMAIN envs[envOp.e].v
    /\ envOp.name \in DOMAIN envs[envs[envOp.e].p].v
    /\ envs[envs[envOp.e].p].v[envOp.name] = envOp.val
    /\ \E e \in 1..Len(envs) : envOp.name \in DOMAIN envs[e].v /\ envs[e].v[envOp.name] # envOp.val

(* C11: define(name, value) changes only the scope it is called on, where  *)
(* name is then bound to value (the other names of that scope, every other *)
(* scope and every parent link stay); get(name) returns the value of the   *)
(* nearest scope of the chain binding name and fails when none binds it;   *)
(* has(name) is true exactly when get(name) succeeds; get and has change   *)
(* no scope.                                                               *)
C11_DefineGetHas ==
    [][/\ envOp'.op = "define" =>
            LET e == envOp'.e
                name == envOp'.name
            IN /\ Len(envs') = Len(envs)
               /\ \A o \in 1..Len(envs) : o # e => envs'[o] = envs[o]
               /\ envs'[e].p = envs[e].p
               /\ DOMAIN envs'[e].v = DOMAIN envs[e].v \cup {name}
               /\ envs'[e].v[name] = envOp'.val
               /\ \A n \in DOMAIN envs[e].v \ {name} : envs'[e].v[n] = envs[e].v[n]
       /\ envOp'.op = "get" =>
            LET h == Holder(envs, envOp'.e, envOp'.name) IN
            /\ envs' = envs
            /\ envOp'.r.ok <=> h # 0
            /\ h # 0 => envOp'.r.v = envs[h].v[envOp'.name]
       /\ envOp'.op = "has" =>
            /\ envs' = envs
            /\ envOp'.r <=> EnvGet(envs, envOp'.e, envOp'.name).ok
            /\ envOp'.r <=> Holder(envs, envOp'.e, envOp'.name) # 0]_vars

\* a get through a child scope whose define shadows the parent's binding has
\* returned the child's value, the parent's binding being still there
C11_Witness ==
    /\ envOp.op = "get"
    /\ envOp.e > 1
    /\ envOp.name \in DOMAIN envs[envOp.e].v
    /\ envOp.name \in DOMAIN envs[envs[envOp.e].p].v
    /\ envs[envOp.e].v[envOp.name] # envs[envs[envOp.e].p].v[envOp.name]
    /\ envOp.r.ok
    /\ envOp.r.v = envs[envOp.e].v[envOp.name]

\* the closures bound in a scope or held in a List
StoredClosures ==
    UNION {{envs[e].v[n].c : n \in {n \in DOMAIN envs[e].v : envs[e].v[n].t = "fn"}}
            : e \in 1..Len(envs)}
    \cup UNION {{lists[l][j].c : j \in {j \in 1..Len(lists[l]) : lists[l][j].t = "fn"}}
            : l \in 1..Len(lists)}

(* C12: in every reachable state of an Interpreter every Environment -- the *)
(* scope of every active block or call and every captured closure scope --  *)
(* has a finite acyclic parent chain ending at the one global Environment,  *)
(* which alone has no parent; no step changes the parent of an Environment. *)
C12_ChainsEndAtGlobal ==
    /\ [](/\ Len(envs) >= 1
          /\ envs[1].p = 0
          /\ \A e \in 2..Len(envs) : envs[e].p \in 1..(e - 1)
          /\ \A e \in 1..Len(envs) :
                LET c == ScopeChain(envs, e) IN
                /\ c[Len(c)] = 1
                /\ \A i, j \in 1..Len(c) : i # j => c[i] # c[j]
          /\ \A i \in 1..Len(stack) : stack[i].e \in 1..Len(envs)
          /\ StoredClosures \subseteq 1..Len(envs))
    /\ [][/\ Len(envs') >= Len(envs)
          /\ \A e \in 1..Len(envs) : envs'[e].p = envs[e].p]_vars

\* a call runs in a frame whose parent is a captured scope that is neither the
\* global scope nor the scope created just before it
C12_Witness ==
    /\ Running
    /\ Top.e > 1
    /\ envs[Top.e].p \notin {0, 1, Top.e - 1}
    /\ Len(ScopeChain(envs, Top.e)) >= 3
    /\ envs[Top.e].p \in StoredClosures

\* the top frame is a `fn` statement
AtFnDef == Running /\ Top.k = "Fn"

\* the step enters the body of a user function
EntersBody ==
    /\ AtFunctionEntry
    /\ Running'
    /\ Len(stack') = Len(stack)
    /\ stack'[Len(stack')].k = "Body"

(* C13: a `fn` statement binds a Function whose closure is the very scope  *)
(* the statement runs in (no scope is created or copied); every call of a  *)
(* Function runs in a new scope whose parent is the Function's closure,    *)
(* whatever the caller's scope is, holding exactly the parameters; so the  *)
(* two counters of SessClosures count 1, 2 and 1, then 3, a variable       *)
(* updated after the definition is read with its new value, and a callee   *)
(* does not see its caller's parameter.                                    *)
C13_ClosuresByReference ==
    /\ [][AtFnDef =>
            /\ Len(envs') = Len(envs)
            /\ envs'[Top.e].v[DefTable[Top.n.d].name] = FnV(Top.n.d, Top.e)
            /\ \A e \in 1..Len(envs) : envs'[e].p = envs[e].p]_vars
    /\ [][EntersBody =>
            LET callee == Gather(<<Top.n.callee>> \o Top.n.arguments, Taken, Top.e, envs).vs[1]
                new == stack'[Len(stack')].e
            IN /\ new = Len(envs) + 1
               /\ Len(envs') = Len(envs) + 1
               /\ envs'[new].p = callee.c
               /\ DOMAIN envs'[new].v =
                     {DefTable[callee.d].params[j] : j \in 1..Len(DefTable[callee.d].params)}
               /\ \A e \in 1..Len(envs) : envs'[e] = envs[e]]_vars
    /\ [](sess = 8 /\ Len(results) = 1 =>
            /\ results[1] = OkResult
            /\ output = <<"1", "2", "1", "3", "2", "global">>)
    /\ [](sess = 8 => Len(output) <= 6
                      /\ output = SubSeq(<<"1", "2", "1", "3", "2", "global">>, 1, Len(output)))

\* both counters have been called, the callee of `caller` has read the global v, and
\* the call before ran in a scope whose parent was not the caller's scope
C13_Witness ==
    /\ sess = 8
    /\ results = <<OkResult>>
    /\ output = <<"1", "2", "1", "3", "2", "global">>
    /\ \E e \in 2..Len(envs) : "count" \in DOMAIN envs[e].v /\ envs[e].v["count"] = NumV(3)
    /\ \E e \in 2..Len(envs) : "count" \in DOMAIN envs[e].v /\ envs[e].v["count"] = NumV(1)
    /\ \E e \in 2..Len(envs) : envs[e].p = 1 /\ "v" \in DOMAIN envs[e].v
                                /\ envs[e].v["v"] = StrV("local")

(* C14: a List is created only by evaluating a list literal, which yields  *)
(* a List distinct from all existing ones; `let`, parameter passing and    *)
(* storing in a List create and copy none; a step that mutates changes one *)
(* existing List and is an append or an index-assignment.  In SessLists    *)
(* the List named a is mutated through the name b, the parameter l and the *)
(* element n[0], and each mutation is seen through a, while the List c     *)
(* with the same items (equal to a under ==) is another List.              *)
C14_ListIdentity ==
    /\ [][Len(lists') # Len(lists) =>
            /\ Running /\ Top.k = "List"
            /\ lists' = Append(lists, lists'[Len(lists')])
            /\ ret' = ValRet(ListV(Len(lists) + 1))]_vars
    /\ [][\A l \in 1..Len(lists) : lists'[l] # lists[l] =>
            /\ Running /\ Top.k \in {"Call", "IdxAsg"}
            /\ Len(lists') = Len(lists)
            /\ \A o \in 1..Len(lists) : o # l => lists'[o] = lists[o]]_vars
    /\ [](sess = 9 /\ Len(results) = 1 =>
            /\ results[1] = OkResult
            /\ output = <<"[9, 2, 3]", "[[9, 2, 3]]", "true",
                          "[9, 2, 3]", "[9, 2, 3, 4]", "3">>
            /\ Len(lists) = 3
            /\ envs[1].v["a"] = envs[1].v["b"]
            /\ lists[2] = <<envs[1].v["a"]>>
            /\ envs[1].v["c"] # envs[1].v["a"])

\* the List bound to a and b and held in n carries the three mutations, made through
\* b, a parameter and n[0]
C14_Witness ==
    /\ sess = 9
    /\ results = <<OkResult>>
    /\ envs[1].v["a"] = ListV(1)
    /\ envs[1].v["b"] = ListV(1)
    /\ lists[2] = <<ListV(1)>>
    /\ lists[1] = <<NumV(9), NumV(2), NumV(3)>>
    /\ lists[3] = <<NumV(9), NumV(2), NumV(3), NumV(4)>>

\* the top frame is a body (of if, elif, else or while) about to be entered
AtBlockEntry == Running /\ Top.k = "Block" /\ Top.i = 0

\* the statement whose body the top frame is
BlockOwner == stack[Len(stack) - 1]

UndefinedVariable(name) == RuntimeError("Undefined variable '" \o name \o "'")

(* C15: every entry into an if, elif or else body, and every iteration of  *)
(* a while body, creates a new empty scope whose parent is the scope the   *)
(* statement runs in, and the body's statements run in the new scope; so   *)
(* in SessBlocks a name first bound in a body (by `let` or by `fn`) is     *)
(* undefined after the body and in the next iteration, and a while         *)
(* condition does not see a name bound in the loop's body.                 *)
C15_BlockScopes ==
    /\ [][AtBlockEntry =>
            /\ BlockOwner.k \in {"If", "While"}
            /\ Top.e = BlockOwner.e
            /\ Len(envs') = Len(envs) + 1
            /\ envs'[Len(envs')].p = BlockOwner.e
            /\ DOMAIN envs'[Len(envs')].v = {}
            /\ \A e \in 1..Len(envs) : envs'[e] = envs[e]
            /\ (Running' /\ Len(stack') >= Len(stack)) =>
                  stack'[Len(stack)].e = Len(envs')]_vars
    /\ [][(Running /\ Top.k = "Block" /\ Top.i > 0) => envs' = envs]_vars
    /\ [][(Running /\ Top.k = "Block" /\ Len(stack') = Len(stack) + 1) =>
            stack'[Len(stack')].e = stack'[Len(stack)].e]_vars
    /\ [](sess = 10 /\ Len(results) = 7 =>
            /\ results = <<UndefinedVariable("t"), UndefinedVariable("h"),
                           UndefinedVariable("w"), UndefinedVariable("u"),
                           UndefinedVariable("e"), UndefinedVariable("th"),
                           UndefinedVariable("q")>>
            /\ output = <<"10", "20", "2", "1", "2", "3">>)

\* the seven programs of SessBlocks have each failed on the name bound in a body, and
\* the two iterations of the first loop have left two scopes binding t
C15_Witness ==
    /\ sess = 10
    /\ Len(results) = 7
    /\ results[7] = UndefinedVariable("q")
    /\ output = <<"10", "20", "2", "1", "2", "3">>
    /\ Cardinality({e \in 2..Len(envs) : envs[e].p = 1 /\ "t" \in DOMAIN envs[e].v}) = 2
    /\ "t" \notin DOMAIN envs[1].v

\* the conditions of an `if` statement in source order, and its bodies
IfConds(n) == <<n.condition>> \o [j \in 1..Len(n.elif_clauses) |-> n.elif_clauses[j][1]]
IfBodies(n) == <<n.then_body>> \o [j \in 1..Len(n.elif_clauses) |-> n.elif_clauses[j][2]]

\* the top frame is an `if` statement whose next condition is evaluated
AtIfDecision ==
    /\ Running
    /\ Top.k = "If"
    /\ Top.i >= 0
    /\ Gather(<<IfConds(Top.n)[Top.i + 1]>>, Taken, Top.e, envs).r = "done"

\* the value of that condition
IfCondValue == Gather(<<IfConds(Top.n)[Top.i + 1]>>, Taken, Top.e, envs).vs[1]

\* the step starts a body of the `if` statement on top
StartsBody(body) ==
    /\ Len(stack') = Len(stack) + 1
    /\ stack'[Len(stack')].k = "Block"
    /\ stack'[Len(stack')].n.stmts = body
    /\ stack'[Len(stack)].i = -1

(* C16: an `if` statement evaluates its condition and elif conditions in   *)
(* source order; at the first whose value is not nil and not false (0, ""  *)
(* and [] count as true) it runs that branch's body and evaluates no       *)
(* further condition; when no condition is truthy it runs the else body,   *)
(* if there is one; once a body has run the statement is over, so at most  *)
(* one body runs.                                                          *)
C16_IfTakesFirstTruthy ==
    /\ [][AtIfDecision =>
            LET j == Top.i + 1
                falsy == IfCondValue \in {Nil, BoolV(FALSE)}
            IN IF ~falsy THEN StartsBody(IfBodies(Top.n)[j])
               ELSE IF j < Len(IfConds(Top.n))
                    THEN /\ Len(stack') = Len(stack)
                         /\ stack'[Len(stack)].i = j
                         /\ stack'[Len(stack)].k = "If"
               ELSE IF Top.n.else_body.none THEN stack' = Popped
               ELSE StartsBody(Top.n.else_body.body)]_vars
    /\ [][(Running /\ Top.k = "If" /\ Top.i = -1) => stack' = Popped]_vars
    /\ [][(Running /\ Top.k = "If" /\ Top.i >= 0 /\ Running' /\ Len(stack') >= Len(stack)
           /\ stack'[Len(stack)].i >= 0) =>
            stack'[Len(stack)].i \in {Top.i, Top.i + 1}]_vars
    /\ [](sess = 11 /\ Len(results) = 1 =>
            /\ results[1] = OkResult
            /\ output = <<"c1", "c2", "b2", "d1", "d2", "x2", "e1", "e2", "ve",
                          "f1", "y1", "g1", "g2", "h1", "w1", "after">>)

\* the six statements of SessIf have run: first truthy elif (0, ""), else branch, then
\* branch ([]), no branch, and a then branch before a failing elif condition
C16_Witness ==
    /\ sess = 11
    /\ results = <<OkResult>>
    /\ output = <<"c1", "c2", "b2", "d1", "d2", "x2", "e1", "e2", "ve",
                  "f1", "y1", "g1", "g2", "h1", "w1", "after">>

\* the top frame is an `and` or an `or` whose left operand is evaluated
AtLogic ==
    /\ Running
    /\ Top.k = "Bin"
    /\ Top.n.operator \in {"and", "or"}
    /\ Gather(<<Top.n.left>>, Taken, Top.e, envs).r = "done"

LogicLeft == Gather(<<Top.n.left>>, Taken, Top.e, envs).vs[1]

\* the left operand decides: falsy for `and`, truthy for `or`
LogicSkipsRight == (Top.n.operator = "and") = (LogicLeft \in {Nil, BoolV(FALSE)})

(* C17: `a and b` evaluates b only when a is truthy, `a or b` only when a  *)
(* is falsy; when b is skipped the value is that of a and the step has no  *)
(* effect and raises nothing; when b is evaluated the value is that of b;  *)
(* no value is turned into a Bool.                                         *)
C17_ShortCircuit ==
    /\ [][AtLogic =>
            IF LogicSkipsRight
            THEN /\ stack' = Popped
                 /\ ret' = ValRet(LogicLeft)
                 /\ UNCHANGED <<results, envs, lists, output, callDepth>>
            ELSE IF Len(Taken) = 2
            THEN stack' = Popped /\ ret' = ValRet(Taken[2])
            ELSE IF IsAtom(Top.n.right)
            THEN IF EvalAtom(Top.n.right, Top.e, envs).ok
                 THEN stack' = Popped /\ ret' = ValRet(EvalAtom(Top.n.right, Top.e, envs).v)
                 ELSE /\ stack' = <<>>
                      /\ Last(results') = EvalAtom(Top.n.right, Top.e, envs).exc
            ELSE /\ Len(stack') = Len(stack) + 1
                 /\ stack'[Len(stack')].n = Top.n.right
                 /\ stack'[Len(stack)].vs = <<LogicLeft>>]_vars
    /\ [](sess = 12 /\ Len(results) = 3 =>
            /\ results = <<OkResult, RuntimeError("Division by zero"),
                           UndefinedVariable("undefined_var")>>
            /\ output = <<"a1", "false", "b1", "b2", "s", "o1", "0", "p1", "p2", "",
                          "false", "true", "nil", "nil", "[]">>)

\* SessLogic has run: skipped right operands printed and raised nothing, the values
\* 0, "s", "", nil and [] came out as they are, and a needed right operand has failed
C17_Witness ==
    /\ sess = 12
    /\ results = <<OkResult, RuntimeError("Division by zero"),
                   UndefinedVariable("undefined_var")>>
    /\ output = <<"a1", "false", "b1", "b2", "s", "o1", "0", "p1", "p2", "",
                  "false", "true", "nil", "nil", "[]">>

\* a binary operator has been applied to eqA and eqB
Applied == eqRes # Idle /\ "r" \in DOMAIN eqRes

\* the fraction v equals n/d
IsFraction(v, n, d) == v.t = "num" /\ v.d > 0 /\ v.n * d = n * v.d

C19_ZeroDivisor ==
    (/\ Applied
     /\ eqRes.op \in {"/", "%"}
     /\ EmberType(eqA) = "number"
     /\ EmberType(eqB) = "number"
     /\ eqB.n = 0) =>
        /\ ~eqRes.r.ok
        /\ "v" \notin DOMAIN eqRes.r
        /\ eqRes.r.exc = RuntimeError(IF eqRes.op = "/" THEN "Division by zero"
                                                         ELSE "Modulo by zero")

\* a negative fraction modulo zero has raised "Modulo by zero"
C19_Witness ==
    /\ Applied
    /\ eqRes.op = "%"
    /\ eqA = Rat(-1, 2)
    /\ eqB = NumV(0)
    /\ eqRes.r = [ok |-> FALSE, exc |-> RuntimeError("Modulo by zero")]

\* the top frame is a call whose callee and arguments are evaluated
AtCall ==
    /\ Running
    /\ Top.k = "Call"
    /\ Gather(<<Top.n.callee>> \o Top.n.arguments, Taken, Top.e, envs).r = "done"

Callee == Gather(<<Top.n.callee>> \o Top.n.arguments, Taken, Top.e, envs).vs[1]
ArgCount == Len(Top.n.arguments)

\* the callee is a Builtin or a Function given as many arguments as it takes
CallMatches ==
    \/ /\ Callee.t = "builtin"
       /\ BuiltinArity(Callee.name) \in {-1, ArgCount}
    \/ /\ Callee.t = "fn"
       /\ Len(DefTable[Callee.d].params) = ArgCount

\* the error a call that does not match ends with
CallError ==
    IF Callee.t = "builtin"
    THEN ArityError(Callee.name, BuiltinArity(Callee.name), ArgCount)
    ELSE IF Callee.t = "fn"
    THEN ArityError(DefTable[Callee.d].name, Len(DefTable[Callee.d].params), ArgCount)
    ELSE RuntimeError("Cannot call " \o FormatValue(Callee, lists)
                      \o " (type " \o EmberType(Callee) \o ")")

-----------------------------------------------------------------------------
(* C21 *)

\* _exec_index_assign and _eval_index have evaluated their operands
AtIndexAssign ==
    /\ Running
    /\ Top.k = "IdxAsg"
    /\ Gather(<<Top.n.obj, Top.n.index, Top.n.value>>, Taken, Top.e, envs).r = "done"

AtIndexRead ==
    /\ Running
    /\ Top.k = "Idx"
    /\ Gather(<<Top.n.obj, Top.n.index>>, Taken, Top.e, envs).r = "done"

IndexOperands ==
    IF Top.k = "IdxAsg"
    THEN Gather(<<Top.n.obj, Top.n.index, Top.n.value>>, Taken, Top.e, envs).vs
    ELSE Gather(<<Top.n.obj, Top.n.index>>, Taken, Top.e, envs).vs

\* the index converts to an integer k with 0 <= k < length
IndexInRange(index, length) ==
    IsFinite(index) /\ 0 <= Trunc(index) /\ Trunc(index) < length

\* execute ends in this step with an error of the kind
FailsWith(kind) == stack' = <<>> /\ Len(results') = Len(results) + 1 /\ Last(results').kind = kind

FailsOutOfRange(what, index, length) ==
    /\ FailsWith("RuntimeError")
    /\ IsFinite(index) => Last(results') = OutOfRange(what, Trunc(index), length)

(* C21: `let name[i] = v` changes a List only when the target is a List and *)
(* i is a Number whose integer conversion k has 0 <= k < length, and then   *)
(* changes exactly element k to v; a target that is no List and an index    *)
(* that is no Number fail with a TypeError, every other index fails with    *)
(* the RuntimeError "Index k out of range ...", and no failure changes a    *)
(* List.  A read obj[i] of a List or a String follows the same index policy *)
(* and yields element k; a read of any other type fails with a TypeError.   *)
C21_IndexPolicy ==
    /\ [][AtIndexAssign =>
            LET o == IndexOperands[1]
                i == IndexOperands[2]
                v == IndexOperands[3]
            IN IF o.t # "list" \/ i.t # "num"
               THEN FailsWith("TypeError") /\ lists' = lists
               ELSE IF IndexInRange(i, Len(lists[o.id]))
               THEN /\ lists' = [lists EXCEPT ![o.id][Trunc(i) + 1] = v]
                    /\ stack' = Popped
               ELSE /\ FailsOutOfRange("List", i, Len(lists[o.id]))
                    /\ lists' = lists]_vars
    /\ [][(Running /\ Top.k = "IdxAsg" /\ lists' # lists) =>
            /\ AtIndexAssign
            /\ IndexOperands[1].t = "list"
            /\ IndexOperands[2].t = "num"
            /\ IndexInRange(IndexOperands[2], Len(lists[IndexOperands[1].id]))]_vars
    /\ [][AtIndexRead =>
            LET o == IndexOperands[1]
                i == IndexOperands[2]
                length == IF o.t = "list" THEN Len(lists[o.id]) ELSE Len(o.s)
            IN /\ lists' = lists
               /\ IF o.t \notin {"list", "str"} \/ i.t # "num"
                  THEN FailsWith("TypeError")
                  ELSE IF IndexInRange(i, length)
                  THEN /\ stack' = Popped
                       /\ ret' = ValRet(IF o.t = "list" THEN lists[o.id][Trunc(i) + 1]
                                        ELSE StrV(SubSeq(o.s, Trunc(i) + 1, Trunc(i) + 1)))
                  ELSE FailsOutOfRange(IF o.t = "list" THEN "List" ELSE "String",
                                       i, length)]_vars

-----------------------------------------------------------------------------
(* C22 *)

TokenTypes == [i \in 1..Len(lex.tokens) |-> lex.tokens[i].type]

\* the source holds nothing but spaces, tabs, CRs, newlines and comments
RECURSIVE BlankFrom(_, _, _)
BlankFrom(source, i, inComment) ==
    IF i > Len(source) THEN TRUE
    ELSE IF inComment THEN BlankFrom(source, i + 1, source[i] # "\n")
    ELSE IF source[i] = "#" THEN BlankFrom(source, i + 1, TRUE)
    ELSE source[i] \in {" ", "\t", "\r", "\n"} /\ BlankFrom(source, i + 1, FALSE)

Blank(source) == BlankFrom(source, 1, FALSE)

\* exactly one EOF token, and it is the last token
OneEofAtEnd ==
    /\ lex.tokens # <<>>
    /\ \A i \in 1..Len(lex.tokens) : (TokenTypes[i] = "EOF") = (i = Len(lex.tokens))

\* the EOF token comes directly after exactly one NEWLINE token
NewlineBeforeEof ==
    /\ Len(lex.tokens) >= 2
    /\ TokenTypes[Len(lex.tokens) - 1] = "NEWLINE"
    /\ Len(lex.tokens) >= 3 => TokenTypes[Len(lex.tokens) - 2] # "NEWLINE"

(* C22 as stated: every source text that tokenizes without error, the empty *)
(* one and those of whitespace, newlines and comments included, gives a     *)
(* token sequence with exactly one EOF token, which is last and comes       *)
(* directly after exactly one NEWLINE token.                                *)
C22_NewlineThenEofAlways == Tokenized => OneEofAtEnd /\ NewlineBeforeEof

(* C22: every source text that tokenizes without error gives a token        *)
(* sequence with exactly one EOF token, which is last.  If the source holds *)
(* a token, the EOF comes directly after exactly one NEWLINE token; if the  *)
(* source is empty or holds only whitespace, newlines and comments, the     *)
(* sequence is the EOF token alone.                                         *)
C22_EofAfterNewlineUnlessBlank ==
    Tokenized =>
        /\ OneEofAtEnd
        /\ IF Blank(lex.source) THEN Len(lex.tokens) = 1 ELSE NewlineBeforeEof

\* a source of newlines, a blank and a comment is tokenized to the EOF token alone
C22_Witness ==
    /\ Tokenized
    /\ lex.source = <<"\n", " ", "#", "a">>
    /\ TokenTypes = <<"EOF">>

-----------------------------------------------------------------------------
(* C23 *)

(* C23: in the token sequence that tokenize builds and returns no NEWLINE   *)
(* token comes directly after another NEWLINE token, whatever newlines,     *)
(* whitespace and comments lie between two tokens or at the end of the      *)
(* source.                                                                  *)
C23_NoNewlineAfterNewline ==
    \A i \in 1..(Len(lex.tokens) - 1) :
        ~(TokenTypes[i] = "NEWLINE" /\ TokenTypes[i + 1] = "NEWLINE")

\* two newlines with a comment between them after a token, at the end of the source
C23_Witness ==
    /\ Tokenized
    /\ lex.source = <<"a", "\n", "#", "\n">>
    /\ TokenTypes = <<"IDENTIFIER", "NEWLINE", "EOF">>

-----------------------------------------------------------------------------
(* C24 *)

(* C24: every token that tokenize produces has line >= 1 and column >= 1,   *)
(* string literals with escape sequences or on several lines included.     *)
C24_PositionsAtLeastOne ==
    \A i \in 1..Len(lex.tokens) : lex.tokens[i].line >= 1 /\ lex.tokens[i].column >= 1

-----------------------------------------------------------------------------
(* C25 *)

\* the characters a token, a comment or whitespace may start with
Expected(ch, next) ==
    \/ ch \in {" ", "\t", "\r", "\n", "#", "\"", "_"}
    \/ IsDecimal(ch)
    \/ ch \in AsciiLetters
    \/ ch \in {"+", "-", "*", "/", "%", "=", "<", ">", "(", ")", "[", "]", ","}
    \/ ch = "!" /\ next = "="

(* C25: outside string literals and comments every character other than    *)
(* space, tab, CR, newline, `#`, `"`, a digit 0-9, a letter A-Z or a-z, `_` *)
(* and the first character of an operator or delimiter (a `!` only before   *)
(* `=`) makes tokenize fail with the SyntaxError "Unexpected character" at  *)
(* the line and column of that character; identifiers consist of            *)
(* characters from [A-Za-z0-9_] only.                                       *)
C25_UnexpectedCharacter ==
    /\ [][(Scanning /\ ~AtEnd(lex) /\ ~Expected(Peek(lex), PeekNext(lex))) =>
            /\ lex'.st = "error"
            /\ lex'.exc = SyntaxError("Unexpected character '" \o Peek(lex) \o "'",
                                      lex.line, lex.column)]_vars
    /\ [](\A i \in 1..Len(lex.tokens) :
            lex.tokens[i].type = "IDENTIFIER" =>
                \A j \in 1..Len(lex.tokens[i].lexeme) :
                    \/ lex.tokens[i].lexeme[j] \in AsciiLetters \cup {"_"}
                    \/ IsDecimal(lex.tokens[i].lexeme[j]))

-----------------------------------------------------------------------------
(* C26 *)

\* the position of the quote that closes the string literal whose text starts at
\* position i of the source, 0 if the source ends before it
RECURSIVE ClosingQuote(_, _)
ClosingQuote(source, i) ==
    IF i > Len(source) THEN 0
    ELSE IF source[i] = "\"" THEN i
    ELSE IF source[i] = "\\" THEN ClosingQuote(source, i + 2)
    ELSE ClosingQuote(source, i + 1)

\* the next token is a string literal that the source does not close
AtUnterminatedString ==
    /\ Scanning
    /\ ~AtEnd(lex)
    /\ Peek(lex) = "\""
    /\ ClosingQuote(lex.source, lex.pos + 2) = 0

(* C26: when the source ends before the quote that closes a string literal  *)
(* (also a literal on several lines, and a source that ends right after a   *)
(* backslash), tokenize fails with the SyntaxError "Unterminated string" at *)
(* the line and column of the opening quote, and returns no tokens.         *)
C26_UnterminatedString ==
    /\ [][AtUnterminatedString =>
            /\ lex'.st = "error"
            /\ lex'.exc = SyntaxError("Unterminated string", lex.line, lex.column)]_vars
    /\ [][TokenizeFailed => lex'.st = "error"]_vars

\* a literal opened in column 2 of line 1 that goes on over a newline and ends with
\* the source right after a backslash
C26_Witness ==
    /\ TokenizeFailed
    /\ lex.source = <<" ", "\"", "\n", "\\">>
    /\ lex.exc = SyntaxError("Unterminated string", 1, 2)
    /\ lex.line = 2

-----------------------------------------------------------------------------
(* C27 *)

\* the binary operators from the loosest to the tightest
PrecedenceOrder ==
    <<{"or"}, {"and"}, {"==", "!="}, {"<", ">", "<=", ">="}, {"+", "-"}, {"*", "/", "%"}>>
Level(tok) == CHOOSE i \in 1..Len(PrecedenceOrder) : JoinChars(tok.lexeme) \in PrecedenceOrder[i]

OperandNode(tok) ==
    IF tok.type = "NUMBER" THEN At(Num(tok.literal), tok) ELSE At(Id(JoinChars(tok.lexeme)), tok)

\* The tree of the chain T[lo..hi] of operands and operators: its root is the
\* last of the operators that bind loosest, so that a tighter operator lies
\* below a looser one and a run of equal precedence leans to the left.
RECURSIVE Grouping(_, _, _)
Grouping(T, lo, hi) ==
    IF lo = hi THEN OperandNode(T[lo])
    ELSE LET ops == {i \in lo..hi : (i - lo) % 2 = 1}
             loosest == CHOOSE l \in {Level(T[i]) : i \in ops} :
                            \A i \in ops : l <= Level(T[i])
             root == CHOOSE k \in ops :
                         /\ Level(T[k]) = loosest
                         /\ \A i \in ops : Level(T[i]) = loosest => i <= k
         IN At(Bin(JoinChars(T[root].lexeme), Grouping(T, lo, root - 1),
                   Grouping(T, root + 1, hi)),
               T[root])

ParsedChain == par.st # "ready" /\ par.input.kind = "expr"

(***************************************************************************)
(* C27: parse turns every chain of operands joined by binary operators     *)
(* into the tree in which an operator of higher precedence (or < and <     *)
(* equality < comparison < additive < multiplicative) lies below one of    *)
(* lower precedence and operators of equal precedence group to the left.   *)
(***************************************************************************)
C27_PrecedenceAndLeftAssociativity ==
    ParsedChain =>
        /\ par.st = "done"
        /\ Len(par.out.node.statements) = 1
        /\ par.out.node.statements[1].expression
               = Grouping(par.tokens, 1, 2 * Len(par.input.ops) + 1)

\* `a - 1 * b - 2.5` is parsed as `(a - (1 * b)) - 2.5`
C27_Witness ==
    /\ ParsedChain
    /\ par.input.ops = <<"-", "*", "-">>
    /\ par.st = "done"
    /\ LET e == par.out.node.statements[1].expression IN
       /\ e.operator = "-" /\ e.right.k = "Num"
       /\ e.left.operator = "-" /\ e.left.left.k = "Id"
       /\ e.left.right.operator = "*"

-----------------------------------------------------------------------------
(* C28 *)

\* where the token after the statement of a statement input stands in the tokens
FollowerIndex(in) == Len(Tokenize(Prefix(in) \o StatementTexts[in.stmt])) - 1
Follower == par.tokens[FollowerIndex(par.input)]

ParsedStatement == par.st # "ready" /\ par.input.kind = "stmt"

StartsWith(text, start) == Len(text) >= Len(start) /\ SubSeq(text, 1, Len(start)) = start

(***************************************************************************)
(* C28: a statement that is not a block opener is accepted when the token  *)
(* after it is NEWLINE or EOF, or is end, elif or else (a missing          *)
(* terminator that is tolerated); with any other token after it parse      *)
(* fails with the SyntaxError "Expected newline after statement" at that   *)
(* token and returns no Program.                                           *)
(***************************************************************************)
C28_StatementTerminator ==
    ParsedStatement =>
        IF Follower.type \in {"NEWLINE", "EOF", "END", "ELIF", "ELSE"}
        THEN par.st = "done"
        ELSE /\ par.st = "error"
             /\ par.out.exc.kind = "SyntaxError"
             /\ StartsWith(par.out.exc.msg, "Expected newline after statement")
             /\ par.out.exc.line = Follower.line
             /\ par.out.exc.column = Follower.column

-----------------------------------------------------------------------------
(* C29 *)

(***************************************************************************)
(* C29: over any sequence of execute calls on one Interpreter, failing     *)
(* ones included, there are never more than MAX_CALL_DEPTH user-function   *)
(* calls active at the same time: the depth guard rejects the call that    *)
(* would be the next one.                                                  *)
(***************************************************************************)
C29_ActiveCallsBounded == ActiveCalls <= MAX_CALL_DEPTH

-----------------------------------------------------------------------------
(* C30 *)

\* the top frame is a call of print or str whose arguments are evaluated
AtRender == AtCall /\ CallMatches /\ Callee \in {BuiltinV("print"), BuiltinV("str")}

\* the host's stack is used up: the computation under way had no end
StackExhausted(exc) == exc.kind = "RecursionError"

(***************************************************************************)
(* C30: print and str come to the end of rendering every value a program   *)
(* can build, a List that append or index assignment has made an element   *)
(* of itself included: the rendering never goes on until the host's stack  *)
(* is used up.                                                             *)
(***************************************************************************)
C30_RenderingTerminates ==
    [][AtRender => (results' = results \/ ~StackExhausted(Last(results')))]_vars

====
